---------------------------- MODULE Spec2Model ----------------------------
(***************************************************************************)
(* Model of the portfolio ledger of the TradingAlgo repository             *)
(* (src/portfolio.py, src/tradelogger.py, src/stock.py).                   *)
(*                                                                         *)
(* Numbers: the program computes on Python/numpy floats.  The model        *)
(* computes on exact rationals [n, d] in lowest terms, so every equality   *)
(* below is an equality of exact values; rounding is not modelled.         *)
(* Dates are whole days (pd.Timestamp.normalize() of a day is that day).   *)
(* A price that get_price_at_date reports as None is the value NoPrice.    *)
(***************************************************************************)
EXTENDS Integers, Sequences, FiniteSets, TLC

(* ------------------------------ bounds -------------------------------- *)
\* number of calls made on the Portfolio in one behaviour
MaxOps == 3
\* last calendar day of the model
MaxDate == 2

Tickers == {"A", "B"}
Dates == 0..MaxDate
\* share counts passed to buy_stock / sell_stock
ShareChoices == {20, 50}
\* starting cash of Portfolio(cash, name)
StartCashes == {10000}
\* target weights a strategy hands to the rebalancer: 1/4 and 3/4
WeightChoices == {[n |-> 1, d |-> 4], [n |-> 3, d |-> 4]}

(* --------------------------- exact rationals --------------------------- *)
RECURSIVE GCD(_, _)
GCD(a, b) == IF b = 0 THEN a ELSE GCD(b, a % b)

Abs(x) == IF x < 0 THEN -x ELSE x

\* the rational n/d (d # 0) in lowest terms with a positive denominator
Rat(n, d) ==
    LET s == IF d < 0 THEN -1 ELSE 1
        g == GCD(Abs(n), Abs(d))
    IN  [n |-> (s * n) \div g, d |-> (s * d) \div g]

Int2R(i) == [n |-> i, d |-> 1]
Zero == Int2R(0)

\* (sums and products cancel common factors before they multiply, to keep
\* the intermediate integers small)
RAdd(x, y) ==
    LET g == GCD(x.d, y.d)
    IN  Rat(x.n * (y.d \div g) + y.n * (x.d \div g), (x.d \div g) * y.d)
RSub(x, y) == RAdd(x, [n |-> -y.n, d |-> y.d])
RMul(x, y) ==
    LET g1 == GCD(Abs(x.n), y.d)
        g2 == GCD(Abs(y.n), x.d)
    IN  IF x.n = 0 \/ y.n = 0 THEN [n |-> 0, d |-> 1]
        ELSE Rat((x.n \div g1) * (y.n \div g2), (x.d \div g2) * (y.d \div g1))
\* x / y, y # 0
RDiv(x, y) == RMul(x, Rat(y.d, y.n))
RLt(x, y) ==
    LET g == GCD(x.d, y.d) IN x.n * (y.d \div g) < y.n * (x.d \div g)
RLe(x, y) ==
    LET g == GCD(x.d, y.d) IN x.n * (y.d \div g) <= y.n * (x.d \div g)
RMin(x, y) == IF RLe(x, y) THEN x ELSE y
\* Python's x // y on floats: the floor of the quotient, as a float
RFloorDiv(x, y) == LET q == RDiv(x, y) IN Int2R(q.n \div q.d)

(* ----------------------------- price data ------------------------------ *)
NoPrice == [n |-> 0, d |-> 0]

\* Stock.price_history: the recorded closes, a sparse series date -> price
\* ("Z" and "N" are the stocks with a recorded close of zero and below zero)
PriceHistory(t) ==
    CASE t = "A" -> (1 :> Int2R(100)) @@ (2 :> Int2R(110))
      [] t = "Z" -> (0 :> Int2R(40)) @@ (1 :> Zero)
      [] t = "N" -> (0 :> Int2R(-5))
      [] OTHER -> (0 :> Int2R(40)) @@ (2 :> Int2R(30))

\* Stock.get_price_at_date: the entry at the date, else the entry at the
\* latest recorded date <= date, else None
get_price_at_date(t, date) ==
    LET h == PriceHistory(t)
        valid == {x \in DOMAIN h : x <= date}
    IN  IF date \in DOMAIN h THEN h[date]
        ELSE IF valid = {} THEN NoPrice
        ELSE h[CHOOSE x \in valid : \A y \in valid : y <= x]


(* ------------------------------- state --------------------------------- *)
VARIABLES
    cash,              \* Portfolio.cash
    holdings,          \* Portfolio.holdings: ticker -> id of its info dict
    objs,              \* the info dicts ever created: id -> "shares" field
    trade_log,         \* Portfolio.trade_log: the tradeLog entries
    holdings_history,  \* Portfolio.holdings_history: (date, holdings.copy())
    value_history,     \* Portfolio.value_history: (date, total_value)
    start_cash,        \* the cash argument of Portfolio(cash, name)
    last,              \* the last call: operation, arguments, outcome
    nops               \* number of calls made so far

vars == <<cash, holdings, objs, trade_log, holdings_history, value_history,
          start_cash, last, nops>>

\* state of the other objects of the repository; each specification below
\* runs one of them and leaves the others as constructed
VARIABLES
    strategy,          \* which strategy class the scoring instance is
    prev_constituents, \* MomentumStrategy / MomentumFCFStrategy field
    score_last         \* the last scoring call: data, arguments, outcome

scoreVars == <<strategy, prev_constituents, score_last>>

VARIABLES
    series,            \* a Stock's price_history / market_cap_history
    asof_last          \* the last as-of lookup: date asked for and outcome

dataVars == <<series, asof_last>>

VARIABLES
    quotes,            \* price_history.asof(date) of each stock of a universe
    pick_last          \* the last get_top_stocks_and_weights call

pickVars == <<quotes, pick_last>>

VARIABLES
    algo,              \* an Algorithim object: holdings, trade log, capital
    run                \* the frame of its run_backtest call

runVars == <<algo, run>>

\* no strategy instance has been created
ScoreIdle ==
    /\ strategy = "none"
    /\ prev_constituents = <<>>
    /\ score_last = [op |-> "none", view |-> <<>>, args |-> <<>>,
                     pre |-> <<>>, err |-> "none", ret |-> <<>>, z |-> <<>>,
                     divzero |-> FALSE, calls |-> 0]

\* no Stock whose series is looked up
DataIdle ==
    /\ series = <<>>
    /\ asof_last = [op |-> "none", date |-> [day |-> 0, clock |-> 0],
                    ret |-> [n |-> 0, d |-> 0]]

\* no universe whose top stocks are picked
PickIdle ==
    /\ quotes = <<>>
    /\ pick_last = [op |-> "none", n |-> 0, order |-> <<>>, ret |-> <<>>]

\* no Algorithim object
RunIdle ==
    /\ algo = <<>>
    /\ run = <<>>

\* a dict with no key
EmptyMap == [x \in {} |-> 0]

\* the Portfolio object as one value, with the exception a call raised
Self == [cash |-> cash, holdings |-> holdings, objs |-> objs,
         trade_log |-> trade_log, holdings_history |-> holdings_history,
         value_history |-> value_history, err |-> "none"]

\* the share count of ticker t in the ledger p (0 when t is not a key)
SharesOf(p, t) ==
    IF t \in DOMAIN p.holdings THEN p.objs[p.holdings[t]] ELSE Zero

\* tradelogger.log_trade: the entry carries the as-of price of the date
log_trade(action, t, quantity, date) ==
    [action |-> action, ticker |-> t, quantity |-> quantity, date |-> date,
     price |-> get_price_at_date(t, date)]

(* ------------------------- Portfolio.buy_stock ------------------------- *)
\* buy_stock without the clamp of lines 40-42
buy_stock_noclamp(p, t, shares, date) ==
    LET price == get_price_at_date(t, date) IN
    IF price = NoPrice THEN [p EXCEPT !.err = "TypeError"]
    ELSE IF RLe(shares, Zero) THEN p
    ELSE LET cost == RMul(shares, price) IN
         [p EXCEPT
            !.cash = RSub(p.cash, cost),
            !.holdings = IF t \in DOMAIN p.holdings THEN p.holdings
                         ELSE p.holdings @@ (t :> Len(p.objs) + 1),
            !.objs = IF t \in DOMAIN p.holdings
                     THEN [p.objs EXCEPT ![p.holdings[t]] = RAdd(@, shares)]
                     ELSE Append(p.objs, shares),
            !.trade_log = Append(p.trade_log, log_trade("BUY", t, shares, date))]

\* buy_stock charging the requested cost after the clamp (line 42 left out)
buy_stock_stale_cost(p, t, shares0, date) ==
    LET price == get_price_at_date(t, date) IN
    IF price = NoPrice THEN [p EXCEPT !.err = "TypeError"]
    ELSE
    LET cost0 == RMul(shares0, price)
        short == RLt(p.cash, cost0)
        shares == IF short THEN RFloorDiv(p.cash, price) ELSE shares0
    IN  IF RLe(shares, Zero) THEN p
        ELSE [p EXCEPT
            !.cash = RSub(p.cash, cost0),
            !.holdings = IF t \in DOMAIN p.holdings THEN p.holdings
                         ELSE p.holdings @@ (t :> Len(p.objs) + 1),
            !.objs = IF t \in DOMAIN p.holdings
                     THEN [p.objs EXCEPT ![p.holdings[t]] = RAdd(@, shares)]
                     ELSE Append(p.objs, shares),
            !.trade_log = Append(p.trade_log, log_trade("BUY", t, shares, date))]

\* buy_stock clamping with true division (cash / price) instead of the
\* floor division of line 41
buy_stock_truediv(p, t, shares0, date) ==
    LET price == get_price_at_date(t, date) IN
    IF price = NoPrice THEN [p EXCEPT !.err = "TypeError"]
    ELSE
    LET cost0 == RMul(shares0, price)
        short == RLt(p.cash, cost0)
        shares == IF short THEN RDiv(p.cash, price) ELSE shares0
        cost == IF short THEN RMul(shares, price) ELSE cost0
    IN  IF RLe(shares, Zero) THEN p
        ELSE [p EXCEPT
            !.cash = RSub(p.cash, cost),
            !.holdings = IF t \in DOMAIN p.holdings THEN p.holdings
                         ELSE p.holdings @@ (t :> Len(p.objs) + 1),
            !.objs = IF t \in DOMAIN p.holdings
                     THEN [p.objs EXCEPT ![p.holdings[t]] = RAdd(@, shares)]
                     ELSE Append(p.objs, shares),
            !.trade_log = Append(p.trade_log, log_trade("BUY", t, shares, date))]

buy_stock(p, t, shares0, date) ==
    LET price == get_price_at_date(t, date) IN
    \* line 37: shares * None raises TypeError before anything is changed
    IF price = NoPrice THEN [p EXCEPT !.err = "TypeError"]
    ELSE
    LET cost0 == RMul(shares0, price)
        short == RLt(p.cash, cost0)
        shares == IF short THEN RFloorDiv(p.cash, price) ELSE shares0
        cost == IF short THEN RMul(shares, price) ELSE cost0
    IN  IF RLe(shares, Zero) THEN p
        ELSE [p EXCEPT
            !.cash = RSub(p.cash, cost),
            !.holdings = IF t \in DOMAIN p.holdings THEN p.holdings
                         ELSE p.holdings @@ (t :> Len(p.objs) + 1),
            !.objs = IF t \in DOMAIN p.holdings
                     THEN [p.objs EXCEPT ![p.holdings[t]] = RAdd(@, shares)]
                     ELSE Append(p.objs, shares),
            !.trade_log = Append(p.trade_log, log_trade("BUY", t, shares, date))]

(* ------------------------ Portfolio.sell_stock ------------------------- *)
\* sell_stock without the clamp of line 63
sell_stock_noclamp(p, t, shares, date) ==
    IF t \notin DOMAIN p.holdings THEN p
    ELSE
    LET owned == p.objs[p.holdings[t]] IN
    IF RLe(shares, Zero) THEN p
    ELSE
    LET price == get_price_at_date(t, date) IN
    IF price = NoPrice THEN [p EXCEPT !.err = "TypeError"]
    ELSE
    LET left == RSub(owned, shares) IN
    [p EXCEPT
        !.cash = RAdd(p.cash, RMul(shares, price)),
        !.objs = [p.objs EXCEPT ![p.holdings[t]] = left],
        !.holdings = IF left = Zero
                     THEN [x \in DOMAIN p.holdings \ {t} |-> p.holdings[x]]
                     ELSE p.holdings,
        !.trade_log = Append(p.trade_log, log_trade("SELL", t, shares, date))]

sell_stock(p, t, shares0, date) ==
    IF t \notin DOMAIN p.holdings THEN p
    ELSE
    LET owned == p.objs[p.holdings[t]]
        shares == RMin(shares0, owned)
    IN  IF RLe(shares, Zero) THEN p
        ELSE
        LET price == get_price_at_date(t, date) IN
        \* line 69: shares * None raises TypeError before anything is changed
        IF price = NoPrice THEN [p EXCEPT !.err = "TypeError"]
        ELSE
        LET left == RSub(owned, shares) IN
        [p EXCEPT
            !.cash = RAdd(p.cash, RMul(shares, price)),
            !.objs = [p.objs EXCEPT ![p.holdings[t]] = left],
            !.holdings = IF left = Zero
                         THEN [x \in DOMAIN p.holdings \ {t} |-> p.holdings[x]]
                         ELSE p.holdings,
            !.trade_log = Append(p.trade_log, log_trade("SELL", t, shares, date))]


(* -------------------- Portfolio.get_portfolio_value -------------------- *)
RECURSIVE SumHoldings(_, _, _)
\* the sum of shares * price over the tickers of S (all priced at date)
SumHoldings(p, S, date) ==
    IF S = {} THEN Zero
    ELSE LET t == CHOOSE x \in S : TRUE
         IN  RAdd(RMul(SharesOf(p, t), get_price_at_date(t, date)),
                  SumHoldings(p, S \ {t}, date))

\* line 29: shares * None raises TypeError for a holding without a price
get_portfolio_value(p, date) ==
    IF \E t \in DOMAIN p.holdings : get_price_at_date(t, date) = NoPrice
    THEN [err |-> "TypeError", val |-> Zero]
    ELSE [err |-> "none",
          val |-> RAdd(p.cash, SumHoldings(p, DOMAIN p.holdings, date))]

(* ------------- Portfolio.rebalance_portfolio_with_weights -------------- *)
\* rebalance_item with the target taken from the cash left, not from the
\* total value computed up front
rebalance_item_cash_target(p, t, target_weight, total_value, date) ==
    LET price == get_price_at_date(t, date)
        held == t \in DOMAIN p.holdings
        target_value == RMul(p.cash, target_weight)
    IN  IF price = NoPrice THEN [p EXCEPT !.err = "TypeError"]
        ELSE
        LET current_value == IF held THEN RMul(SharesOf(p, t), price) ELSE Zero
        IN  IF RLt(current_value, target_value)
            THEN buy_stock(p, t,
                     RDiv(RSub(target_value, current_value), price), date)
            ELSE IF RLt(target_value, current_value)
            THEN sell_stock(p, t,
                     RDiv(RSub(current_value, target_value), price), date)
            ELSE p

\* lines 90-104 for one (stock, target_weight) item of the dict
rebalance_item(p, t, target_weight, total_value, date) ==
    LET price == get_price_at_date(t, date)
        held == t \in DOMAIN p.holdings
        target_value == RMul(total_value, target_weight)
    IN  \* line 93: shares * None
        IF held /\ price = NoPrice THEN [p EXCEPT !.err = "TypeError"]
        ELSE
        LET current_value == IF held THEN RMul(SharesOf(p, t), price) ELSE Zero
        IN  IF RLt(current_value, target_value)
            THEN \* line 98: float / None
                 IF price = NoPrice THEN [p EXCEPT !.err = "TypeError"]
                 ELSE LET shares_to_buy ==
                              RDiv(RSub(target_value, current_value), price)
                      IN  IF RLt(Zero, shares_to_buy)
                          THEN buy_stock(p, t, shares_to_buy, date)
                          ELSE p
            ELSE IF RLt(target_value, current_value)
            THEN \* line 102: float / None
                 IF price = NoPrice THEN [p EXCEPT !.err = "TypeError"]
                 ELSE LET shares_to_sell ==
                              RDiv(RSub(current_value, target_value), price)
                      IN  IF RLt(Zero, shares_to_sell)
                          THEN sell_stock(p, t, shares_to_sell, date)
                          ELSE p
            ELSE p

RECURSIVE rebalance_loop(_, _, _, _, _)
\* the for loop of line 89 over the items i.. of the dict, in dict order;
\* an exception leaves the loop
rebalance_loop(p, hw, i, total_value, date) ==
    IF i > Len(hw) \/ p.err # "none" THEN p
    ELSE rebalance_loop(
             rebalance_item(p, hw[i][1], hw[i][2], total_value, date),
             hw, i + 1, total_value, date)

\* hw: the items of holdings_and_weights, <<ticker, weight>>, in dict order
rebalance_portfolio_with_weights(p, hw, date) ==
    LET tv == get_portfolio_value(p, date) IN
    IF tv.err # "none" THEN [p EXCEPT !.err = tv.err]
    ELSE
    LET q == rebalance_loop(p, hw, 1, tv.val, date) IN
    IF q.err # "none" THEN q
    ELSE
    LET after == get_portfolio_value(q, date) IN
    [q EXCEPT
        !.holdings_history =
            Append(q.holdings_history, [date |-> date, snap |-> q.holdings]),
        !.value_history =
            IF after.err = "none"
            THEN Append(q.value_history, [date |-> date, value |-> after.val])
            ELSE q.value_history,
        !.err = after.err]

(* ------------- Portfolio.initialize_smooth_value_history --------------- *)
RECURSIVE SortByDate(_)
\* list.sort(key=date): a stable sort by date
SortByDate(s) ==
    IF Len(s) <= 1 THEN s
    ELSE LET r == SortByDate(SubSeq(s, 1, Len(s) - 1))
             x == s[Len(s)]
             k == Cardinality({i \in 1..Len(r) : r[i].date <= x.date})
         IN  SubSeq(r, 1, k) \o <<x>> \o SubSeq(r, k + 1, Len(r))

HasDuplicateDates(s) ==
    \E i, j \in 1..Len(s) : i # j /\ s[i].date = s[j].date

\* a forward fill in place of the interpolation: the latest recorded value
\* at or before day d
InterpolateAt_ffill(s, d) ==
    s[CHOOSE i \in 1..Len(s) :
          s[i].date <= d /\ \A j \in 1..Len(s) :
              s[j].date <= d => s[j].date <= s[i].date].value

\* df.reindex(full_dates).interpolate(method="time") at day d: the recorded
\* value on a recorded day, else the value on the line through the nearest
\* recorded points before and after d
InterpolateAt(s, d) ==
    IF \E i \in 1..Len(s) : s[i].date = d
    THEN s[CHOOSE i \in 1..Len(s) : s[i].date = d].value
    ELSE LET lo == CHOOSE i \in 1..Len(s) :
                       s[i].date < d /\ \A j \in 1..Len(s) :
                           s[j].date < d => s[j].date <= s[i].date
             hi == CHOOSE i \in 1..Len(s) :
                       s[i].date > d /\ \A j \in 1..Len(s) :
                           s[j].date > d => s[j].date >= s[i].date
         IN  RAdd(s[lo].value,
                  RMul(RSub(s[hi].value, s[lo].value),
                       Rat(d - s[lo].date, s[hi].date - s[lo].date)))

initialize_smooth_value_history(p) ==
    IF p.value_history = <<>> THEN p
    ELSE
    LET sorted == SortByDate(p.value_history)
        start_date == sorted[1].date
        end_date == sorted[Len(sorted)].date
    IN  \* line 127: reindex raises ValueError on duplicate labels, after
        \* the in-place sort of line 118
        IF HasDuplicateDates(sorted)
        THEN [p EXCEPT !.value_history = sorted, !.err = "ValueError"]
        ELSE [p EXCEPT !.value_history =
                [i \in 1..(end_date - start_date + 1) |->
                    [date |-> start_date + i - 1,
                     value |-> InterpolateAt(sorted, start_date + i - 1)]]]


(* ------------------------------ the calls ------------------------------ *)
\* the dicts {stock: weight} passed to the rebalancer, as item sequences
\* in insertion order (each ticker at most once)
WeightDicts ==
    {hw \in UNION {[1..n -> Tickers \X WeightChoices] :
                       n \in 0..Cardinality(Tickers)} :
        \A i, j \in 1..Len(hw) : i # j => hw[i][1] # hw[j][1]}

\* the Portfolio as the last call found it
Pre == Self

NoCall == [op |-> "new", ticker |-> "", shares |-> Zero, hw |-> <<>>,
           date |-> 0, err |-> "none", ret |-> Zero]

\* the fields of the Portfolio after a call that left it as q
Becomes(q) ==
    /\ cash' = q.cash
    /\ holdings' = q.holdings
    /\ objs' = q.objs
    /\ trade_log' = q.trade_log
    /\ holdings_history' = q.holdings_history
    /\ value_history' = q.value_history
    /\ nops' = nops + 1
    /\ UNCHANGED start_cash
    /\ UNCHANGED scoreVars
    /\ UNCHANGED dataVars
    /\ UNCHANGED <<pickVars, runVars>>

\* Portfolio(cash, name)
Init ==
    /\ cash \in {Int2R(c) : c \in StartCashes}
    /\ start_cash = cash
    /\ holdings = EmptyMap
    /\ objs = <<>>
    /\ trade_log = <<>>
    /\ holdings_history = <<>>
    /\ value_history = <<>>
    /\ last = [NoCall EXCEPT !.op = "new"] @@ [pre |-> Pre]
    /\ nops = 0
    /\ ScoreIdle
    /\ DataIdle
    /\ PickIdle
    /\ RunIdle

Buy(t, n, d) ==
    /\ nops < MaxOps
    /\ LET q == buy_stock(Self, t, Int2R(n), d) IN
        /\ Becomes(q)
        /\ last' = [NoCall EXCEPT !.op = "buy", !.ticker = t,
                        !.shares = Int2R(n), !.date = d, !.err = q.err]
                   @@ [pre |-> Pre]

Sell(t, n, d) ==
    /\ nops < MaxOps
    /\ LET q == sell_stock(Self, t, Int2R(n), d) IN
        /\ Becomes(q)
        /\ last' = [NoCall EXCEPT !.op = "sell", !.ticker = t,
                        !.shares = Int2R(n), !.date = d, !.err = q.err]
                   @@ [pre |-> Pre]

Rebalance(hw, d) ==
    /\ nops < MaxOps
    /\ LET q == rebalance_portfolio_with_weights(Self, hw, d) IN
        /\ Becomes(q)
        /\ last' = [NoCall EXCEPT !.op = "rebalance", !.hw = hw,
                        !.date = d, !.err = q.err]
                   @@ [pre |-> Pre]

Value(d) ==
    /\ nops < MaxOps
    /\ LET r == get_portfolio_value(Self, d) IN
        /\ Becomes(Self)
        /\ last' = [NoCall EXCEPT !.op = "value", !.date = d,
                        !.err = r.err, !.ret = r.val]
                   @@ [pre |-> Pre]

Smooth ==
    /\ nops < MaxOps
    /\ LET q == initialize_smooth_value_history(Self) IN
        /\ Becomes(q)
        /\ last' = [NoCall EXCEPT !.op = "smooth", !.err = q.err]
                   @@ [pre |-> Pre]

Next ==
    \/ \E t \in Tickers, n \in ShareChoices, d \in Dates : Buy(t, n, d)
    \/ \E t \in Tickers, n \in ShareChoices, d \in Dates : Sell(t, n, d)
    \/ \E hw \in WeightDicts, d \in Dates : Rebalance(hw, d)
    \/ \E d \in Dates : Value(d)
    \/ Smooth

Spec == Init /\ [][Next]_<<vars, scoreVars, dataVars, pickVars, runVars>>


(* ======================== properties of the ledger ===================== *)
RECURSIVE LogTotal(_, _)
\* the sum of quantity * price over the entries of log with the action
LogTotal(log, action) ==
    IF log = <<>> THEN Zero
    ELSE LET e == log[Len(log)]
             rest == LogTotal(SubSeq(log, 1, Len(log) - 1), action)
         IN  IF e.action = action THEN RAdd(rest, RMul(e.quantity, e.price))
             ELSE rest

RECURSIVE LogShares(_, _, _)
\* the sum of the quantities of the entries of log for ticker t and action
LogShares(log, t, action) ==
    IF log = <<>> THEN Zero
    ELSE LET e == log[Len(log)]
             rest == LogShares(SubSeq(log, 1, Len(log) - 1), t, action)
         IN  IF e.action = action /\ e.ticker = t THEN RAdd(rest, e.quantity)
             ELSE rest

\* C1: in every reachable state of a Portfolio created with cash >= 0,
\* after any calls of buy_stock, sell_stock and the rebalancer, cash >= 0.
C1_NoNegativeCash == RLe(Zero, cash)

\* a buy whose requested cost exceeded the cash was executed (clamped)
C1_Witness ==
    /\ last.op = "buy"
    /\ last.err = "none"
    /\ RLt(last.pre.cash,
           RMul(last.shares, get_price_at_date(last.ticker, last.date)))
    /\ Len(trade_log) = Len(last.pre.trade_log) + 1

\* the scenario of C2: buy 50 A at 100, then sell 20 A at 110
C2_Scenario ==
    <<[action |-> "BUY", ticker |-> "A", quantity |-> Int2R(50),
       date |-> 1, price |-> Int2R(100)],
      [action |-> "SELL", ticker |-> "A", quantity |-> Int2R(20),
       date |-> 2, price |-> Int2R(110)]>>

\* C2: trades conserve cash: cash equals the starting cash minus the sum of
\* quantity * price over the logged BUY entries plus that sum over the
\* logged SELL entries, each entry carrying the executed share count (so
\* the holdings are the logged buys minus the logged sells); cash 10000,
\* buy 50 at 100, sell 20 at 110 gives cash 7200 and 30 shares.
C2_Conservation ==
    /\ cash = RAdd(RSub(start_cash, LogTotal(trade_log, "BUY")),
                   LogTotal(trade_log, "SELL"))
    /\ \A t \in Tickers :
          SharesOf(Self, t) = RSub(LogShares(trade_log, t, "BUY"),
                                   LogShares(trade_log, t, "SELL"))
    /\ (start_cash = Int2R(10000) /\ trade_log = C2_Scenario)
          => (cash = Int2R(7200) /\ SharesOf(Self, "A") = Int2R(30))

C2_Witness ==
    /\ start_cash = Int2R(10000)
    /\ trade_log = C2_Scenario
    /\ last.op = "sell"

\* C3: no holding has a negative share count; a sell of more shares than
\* owned (at an available price) sells exactly the owned amount; a sell of
\* an instrument that is not held changes nothing.
C3_NoShortHoldings ==
    /\ \A t \in DOMAIN holdings : RLe(Zero, objs[holdings[t]])
    /\ (/\ last.op = "sell"
        /\ last.err = "none"
        /\ last.ticker \in DOMAIN last.pre.holdings
        /\ RLt(SharesOf(last.pre, last.ticker), last.shares))
       => LET owned == SharesOf(last.pre, last.ticker)
              price == get_price_at_date(last.ticker, last.date)
          IN  /\ last.ticker \notin DOMAIN holdings
              /\ cash = RAdd(last.pre.cash, RMul(owned, price))
              /\ trade_log = Append(last.pre.trade_log,
                     [action |-> "SELL", ticker |-> last.ticker,
                      quantity |-> owned, date |-> last.date,
                      price |-> price])
    /\ (last.op = "sell" /\ last.ticker \notin DOMAIN last.pre.holdings)
       => /\ last.err = "none"
          /\ cash = last.pre.cash
          /\ holdings = last.pre.holdings
          /\ objs = last.pre.objs
          /\ trade_log = last.pre.trade_log

\* a sell of more shares than owned was executed
C3_Witness ==
    /\ last.op = "sell"
    /\ last.err = "none"
    /\ last.ticker \in DOMAIN last.pre.holdings
    /\ RLt(SharesOf(last.pre, last.ticker), last.shares)
    /\ Len(trade_log) = Len(last.pre.trade_log) + 1


\* the keys of a weight dict
Keys(hw) == {hw[i][1] : i \in 1..Len(hw)}

\* C4: after a rebalance, every instrument held before the call that is
\* not a key of target_weights is no longer held, its whole position sold;
\* rebalancing with empty target_weights leaves the holdings empty.
C4_AbsentLiquidated ==
    (last.op = "rebalance" /\ last.err = "none")
    => /\ \A t \in DOMAIN last.pre.holdings \ Keys(last.hw) :
             /\ t \notin DOMAIN holdings
             /\ \E i \in 1..Len(trade_log) :
                   /\ i > Len(last.pre.trade_log)
                   /\ trade_log[i].action = "SELL"
                   /\ trade_log[i].ticker = t
                   /\ trade_log[i].quantity = SharesOf(last.pre, t)
       /\ last.hw = <<>> => holdings = EmptyMap

\* C5: a rebalance with the same weights and the same date as the rebalance
\* just before it executes no trade: trade log, cash and holdings stay.
C5_Idempotent ==
    [][(/\ last.op = "rebalance"
        /\ last.err = "none"
        /\ last'.op = "rebalance"
        /\ last'.hw = last.hw
        /\ last'.date = last.date)
       => (/\ trade_log' = trade_log
           /\ cash' = cash
           /\ holdings' = holdings
           /\ objs' = objs)]_vars

\* the snapshot k of the holdings history, valued at day d with the cash
\* the ledger had when the snapshot was taken (raw: the values recorded by
\* the rebalances, entry k belonging to snapshot k)
SnapshotValue(raw, k, d) ==
    LET h == holdings_history[k]
        at(day) == SumHoldings([holdings |-> h.snap, objs |-> objs],
                               DOMAIN h.snap, day)
    IN  RAdd(RSub(raw[k].value, at(h.date)), at(d))

\* C6 as stated: the reconstruction values each day with the holdings and
\* cash of the most recent snapshot at or before that day, priced at that
\* day; it never interpolates between the recorded values.
C6_UsesLatestSnapshot ==
    LET raw == last.pre.value_history IN
    (/\ last.op = "smooth"
     /\ last.err = "none"
     /\ raw # <<>>
     /\ Len(raw) = Len(holdings_history)
     /\ \A k \in 1..Len(raw) : raw[k].date = holdings_history[k].date)
    => \A i \in 1..Len(value_history) :
          LET d == value_history[i].date
              k == CHOOSE x \in 1..Len(raw) :
                       raw[x].date <= d /\ \A y \in 1..Len(raw) :
                           raw[y].date <= d => raw[y].date <= raw[x].date
          IN  value_history[i].value = SnapshotValue(raw, k, d)

\* C6, amended: when the reconstruction returns, the history has one entry
\* for every day from the first to the last recorded date; a day with a
\* recorded value reports it, and any other day reports the value on the
\* straight line (in time) between the nearest recorded values before and
\* after it.
C6_Interpolates ==
    LET raw == last.pre.value_history
        n == Len(raw)
    IN
    (last.op = "smooth" /\ last.err = "none" /\ raw # <<>>)
    => /\ \A i \in 1..Len(value_history) :
             value_history[i].date = value_history[1].date + i - 1
       /\ {value_history[i].date : i \in 1..Len(value_history)}
             = {d \in Dates : \E a, b \in 1..n : raw[a].date <= d
                                                /\ d <= raw[b].date}
       /\ \A i \in 1..Len(value_history) :
             LET e == value_history[i] IN
             \/ \E k \in 1..n : raw[k].date = e.date /\ raw[k].value = e.value
             \/ \E lo, hi \in 1..n :
                   /\ raw[lo].date < e.date /\ e.date < raw[hi].date
                   /\ \A k \in 1..n : raw[k].date <= raw[lo].date
                                      \/ raw[k].date >= raw[hi].date
                   /\ RMul(RSub(e.value, raw[lo].value),
                           Int2R(raw[hi].date - raw[lo].date))
                      = RMul(RSub(raw[hi].value, raw[lo].value),
                             Int2R(e.date - raw[lo].date))

\* the reconstruction reported, for a day without a recorded value, a value
\* strictly between two different recorded values
C6_Witness ==
    LET raw == last.pre.value_history IN
    /\ last.op = "smooth"
    /\ last.err = "none"
    /\ \E i \in 2..(Len(value_history) - 1) :
          /\ \A k \in 1..Len(raw) : raw[k].date # value_history[i].date
          /\ RLt(value_history[i + 1].value, value_history[i].value)
          /\ RLt(value_history[i].value, value_history[i - 1].value)

\* C7: a buy or a sell of an instrument whose price is unavailable at the
\* date raises no error and leaves cash, holdings and trade log unchanged.
C7_SilentNoOp ==
    (/\ last.op \in {"buy", "sell"}
     /\ get_price_at_date(last.ticker, last.date) = NoPrice)
    => /\ last.err = "none"
       /\ cash = last.pre.cash
       /\ holdings = last.pre.holdings
       /\ objs = last.pre.objs
       /\ trade_log = last.pre.trade_log

\* C8: value(date) raises no error and returns cash plus the sum of
\* shares * price over the holdings that have a price at the date (a
\* holding without a price contributes 0 and stays in the ledger).
C8_ValueSkipsUnpriced ==
    last.op = "value"
    => /\ last.err = "none"
       /\ last.ret =
             RAdd(cash,
                  SumHoldings(Self,
                      {t \in DOMAIN holdings :
                           get_price_at_date(t, last.date) # NoPrice},
                      last.date))
       /\ holdings = last.pre.holdings

\* C9: the holdings history holds at most one snapshot per date.
C9_OneSnapshotPerDate ==
    \A i, j \in 1..Len(holdings_history) :
        i # j => holdings_history[i].date # holdings_history[j].date

RECURSIVE SumWeights(_)
SumWeights(hw) ==
    IF hw = <<>> THEN Zero
    ELSE RAdd(hw[Len(hw)][2], SumWeights(SubSeq(hw, 1, Len(hw) - 1)))

\* the same dict with its items in another order
Reorderings(hw) ==
    {o \in WeightDicts : Len(o) = Len(hw)
                         /\ {o[i] : i \in 1..Len(o)} = {hw[i] : i \in 1..Len(hw)}}

SameLedger(p, q) ==
    /\ p.cash = q.cash
    /\ \A t \in Tickers : SharesOf(p, t) = SharesOf(q, t)

RECURSIVE BuyCost(_, _, _, _)
\* the cost of the buys a rebalance of p asks for: the sum of
\* target_value - current_value over the items below their target
BuyCost(p, hw, total_value, date) ==
    IF hw = <<>> THEN Zero
    ELSE LET t == hw[Len(hw)][1]
             target_value == RMul(total_value, hw[Len(hw)][2])
             current_value ==
                 IF t \in DOMAIN p.holdings
                 THEN RMul(SharesOf(p, t), get_price_at_date(t, date))
                 ELSE Zero
             rest == BuyCost(p, SubSeq(hw, 1, Len(hw) - 1), total_value, date)
         IN  IF RLt(current_value, target_value)
             THEN RAdd(rest, RSub(target_value, current_value))
             ELSE rest

\* C10 as stated: the ledger after a rebalance is the same for every order
\* of the items of target_weights whenever the weights sum to at most 1.
C10_OrderIndependent ==
    (/\ last.op = "rebalance"
     /\ last.err = "none"
     /\ RLe(SumWeights(last.hw), Int2R(1)))
    => \A o \in Reorderings(last.hw) :
          SameLedger(rebalance_portfolio_with_weights(last.pre, o, last.date),
                     Self)

\* C10, amended: the ledger after a rebalance is the same for every order
\* of the items whenever the weights sum to at most 1 and the buys the
\* event asks for are covered by the cash on hand when it starts.
C10_OrderIndependentIfFunded ==
    (/\ last.op = "rebalance"
     /\ last.err = "none"
     /\ RLe(SumWeights(last.hw), Int2R(1))
     /\ RLe(BuyCost(last.pre, last.hw,
                    get_portfolio_value(last.pre, last.date).val, last.date),
            last.pre.cash))
    => \A o \in Reorderings(last.hw) :
          SameLedger(rebalance_portfolio_with_weights(last.pre, o, last.date),
                     Self)

\* a funded rebalance of two instruments sold one and bought the other
C10_Witness ==
    /\ last.op = "rebalance"
    /\ last.err = "none"
    /\ Len(last.hw) = 2
    /\ RLe(SumWeights(last.hw), Int2R(1))
    /\ RLe(BuyCost(last.pre, last.hw,
                   get_portfolio_value(last.pre, last.date).val, last.date),
           last.pre.cash)
    /\ Len(trade_log) = Len(last.pre.trade_log) + 2
    /\ \E i, j \in 1..Len(trade_log) :
          /\ i > Len(last.pre.trade_log) /\ j > Len(last.pre.trade_log)
          /\ trade_log[i].action = "SELL" /\ trade_log[j].action = "BUY"


(* ====================== strategy scoring: numbers ====================== *)
(* The scoring code computes on pandas / numpy floats, where a missing     *)
(* value is NaN: NaN propagates through arithmetic, every comparison with  *)
(* NaN is false, a float division 0/0 gives NaN without raising, and the   *)
(* reductions sum / mean / std skip NaN.  Finite values stay exact         *)
(* rationals.  A square root is rounded up to a multiple of 1/10.          *)
NaN == [n |-> 1, d |-> 0]
PInf == [n |-> 2, d |-> 0]
NInf == [n |-> -2, d |-> 0]
IsNaN(x) == x = NaN

\* a value a lookup reported as None, once it is stored in a float column
NoneToNaN(x) == IF x = NoPrice THEN NaN ELSE x

FAdd(x, y) == IF IsNaN(x) \/ IsNaN(y) THEN NaN ELSE RAdd(x, y)
FSub(x, y) == IF IsNaN(x) \/ IsNaN(y) THEN NaN ELSE RSub(x, y)
FMul(x, y) == IF IsNaN(x) \/ IsNaN(y) THEN NaN ELSE RMul(x, y)
\* numpy float division: x/0 is NaN for x = 0 and an infinity otherwise
FDiv(x, y) ==
    IF IsNaN(x) \/ IsNaN(y) THEN NaN
    ELSE IF y.n = 0
         THEN (IF x.n = 0 THEN NaN ELSE IF x.n > 0 THEN PInf ELSE NInf)
    ELSE RDiv(x, y)
FLt(x, y) == IF IsNaN(x) \/ IsNaN(y) THEN FALSE ELSE RLt(x, y)
FLe(x, y) == IF IsNaN(x) \/ IsNaN(y) THEN FALSE ELSE RLe(x, y)
\* np.minimum: NaN when either argument is NaN
NpMinimum(x, y) == IF IsNaN(x) \/ IsNaN(y) THEN NaN ELSE RMin(x, y)
\* Python's min(a, b) and max(a, b): a unless b < a, a unless b > a
PyMin(a, b) == IF FLt(b, a) THEN b ELSE a
PyMax(a, b) == IF FLt(a, b) THEN b ELSE a

RECURSIVE SqrtUp(_, _, _)
\* the least k in lo..hi with k * k >= x, where hi * hi >= x (bisection)
SqrtUp(x, lo, hi) ==
    IF lo >= hi THEN hi
    ELSE LET mid == (lo + hi) \div 2 IN
         IF mid * mid >= x THEN SqrtUp(x, lo, mid)
         ELSE SqrtUp(x, mid + 1, hi)
\* the square root of x >= 0, rounded up to a multiple of 1/10
Sqrt(x) ==
    IF IsNaN(x) THEN NaN
    ELSE LET y == x.n * x.d * 100 IN
         Rat(SqrtUp(y, 0, IF y < 46340 THEN y ELSE 46340), x.d * 10)

\* a column of a DataFrame as a list of its values, computed once
Col(f) == f \o <<>>

\* x, after the values of steps have been computed one after the other, as
\* the statements of the code are
InOrder(steps, x) == IF Len(steps) >= 0 THEN x ELSE x

RECURSIVE SumRange(_, _, _)
\* the sum of the entries lo..hi of s that are not NaN (by halves, to keep
\* the evaluation shallow)
SumRange(s, lo, hi) ==
    IF lo > hi THEN Zero
    ELSE IF lo = hi THEN (IF IsNaN(s[lo]) THEN Zero ELSE s[lo])
    ELSE LET mid == (lo + hi) \div 2 IN
         RAdd(SumRange(s, lo, mid), SumRange(s, mid + 1, hi))

\* Series.sum(): the sum of the entries that are not NaN (0 when none)
SumSkipNaN(s) == SumRange(s, 1, Len(s))

\* the entries of s that are not NaN
DropNaN(s) == SelectSeq(s, LAMBDA x : ~IsNaN(x))

\* Series.mean(): the mean of the entries that are not NaN
SeriesMean(s) ==
    LET v == DropNaN(s) IN
    IF v = <<>> THEN NaN ELSE RDiv(SumSkipNaN(v), Int2R(Len(v)))

\* Series.std(): the sample standard deviation (ddof = 1) of the entries
\* that are not NaN; NaN when there are fewer than two
SeriesStd(s) ==
    LET v == DropNaN(s)
        m == SeriesMean(v)
        sq == Col([i \in 1..Len(v) |->
                 RMul(RSub(v[i], m), RSub(v[i], m))])
    IN  IF Len(v) < 2 THEN NaN
        ELSE Sqrt(RDiv(SumSkipNaN(sq), Int2R(Len(v) - 1)))


(* ================== strategy scoring: the universe data ================ *)
(* A scoring call reads, for every stock of the universe, the prices 2,    *)
(* 14 and 11 months before the date, the volatility theta of the window,   *)
(* the market cap and the free cash flow as of the date.  A view names the *)
(* data the universe holds as of one date: the number of stocks and the    *)
(* shape of each series across the stocks.  Stock i has the ticker i.      *)
UniverseSizes == {1, 3, 8, 11}
\* momentum data: all equal / stock 1 ahead of equal others / all distinct /
\* distinct with stocks whose data is missing, unusable or unreadable
MomentumShapes == {"flat", "lead", "ramp", "gaps"}
\* market caps: all equal / none recorded / all zero / missing for the first
\* and the last stock / the lookup of the last stock raises
CapShapes == {"even", "none", "zero", "holes", "bad"}
\* free cash flow: none recorded / growing with the ticker
FcfShapes == {"none", "ramp"}

StockData(v, i) ==
    LET gaps == v.mom = "gaps" IN
    [ticker |-> i,
     price_today |-> CASE v.mom = "flat" -> Int2R(1)
                       [] v.mom = "lead" -> IF i = 1 THEN Int2R(4) ELSE Int2R(1)
                       [] OTHER -> Int2R((i + 1) * (i + 1)),
     price_past14 |-> IF gaps /\ i \in {1, 2} THEN NoPrice
                      ELSE IF gaps /\ i = 6 THEN Zero ELSE Int2R(1),
     price_past11 |-> IF gaps /\ i = 2 THEN NoPrice ELSE Int2R(1),
     theta |-> IF gaps /\ i = 3 THEN Zero
               ELSE IF gaps /\ i = 4 THEN NoPrice ELSE Rat(1, 10),
     price_raises |-> gaps /\ i = 5,
     cap |-> CASE v.cap = "none" -> NoPrice
               [] v.cap = "zero" -> Zero
               [] v.cap = "holes" -> IF i \in {1, v.size} THEN NoPrice
                                     ELSE Int2R(1)
               [] OTHER -> Int2R(1),
     cap_raises |-> v.cap = "bad" /\ i = v.size,
     fcf |-> IF v.fcf = "none" THEN NoPrice ELSE Int2R(i)]

\* Algorithim.universe: the stocks, in the order of the list
Universe(v) == Col([i \in 1..v.size |-> StockData(v, i)])

\* the views a scoring call is run on
Views ==
    {v \in [size : UniverseSizes, mom : MomentumShapes, cap : CapShapes,
            fcf : FcfShapes] :
        /\ v.size = 11 => (v.mom = "lead" /\ v.cap = "even")
        /\ v.fcf = "ramp" => (v.mom \in {"lead", "ramp"}
                              /\ v.cap \in {"even", "holes"})}

\* the data the blended strategy is called with
BlendViews == {v \in Views : v.mom \in {"lead", "ramp"}}

\* the number of calls made on one strategy object
MaxCalls == 2

\* args of MomentumFCFStrategy.get_stocks_and_weights: the two weights
ArgChoices ==
    {[momentum_weight |-> Rat(1, 2), fcf_weight |-> Rat(1, 2)],
     [momentum_weight |-> Int2R(0), fcf_weight |-> Int2R(1)],
     [momentum_weight |-> Int2R(0), fcf_weight |-> Int2R(0)],
     [momentum_weight |-> Int2R(-1), fcf_weight |-> Rat(1, 2)]}

(* ==================== strategy scoring: the signals ==================== *)
\* the outcome of a helper: the exception it raised, or the value returned
Returned(x) == [err |-> "none", val |-> x]
Raised(e) == [err |-> e, val |-> NoPrice]

\* momentum_value (the same in both strategies): sqrt(today / past) - 1,
\* with the 11-month fallback; None when a price is missing or past <= 0
momentum_value(stock) ==
    IF stock.price_raises THEN Raised("Exception")
    ELSE
    LET price_today == stock.price_today
        price_past == IF stock.price_past14 = NoPrice THEN stock.price_past11
                      ELSE stock.price_past14
    IN  IF price_past = NoPrice \/ price_today = NoPrice
           \/ RLe(price_past, Zero)
        THEN Returned(NoPrice)
        ELSE Returned(RSub(Sqrt(RDiv(price_today, price_past)), Int2R(1)))

\* risk_adjusted_momentum_value: momentum / theta, None without a theta
risk_adjusted_momentum_value(stock, m) ==
    IF stock.theta = NoPrice \/ stock.theta = Zero THEN NoPrice
    ELSE RDiv(m, stock.theta)

\* the row step 1 makes for a stock, with whether the stock is kept: it is
\* when it has a momentum and a risk-adjusted momentum; a stock whose
\* computation raises is skipped
momentum_row(stock) ==
    LET m == momentum_value(stock)
        ra == IF m.err # "none" \/ m.val = NoPrice THEN NoPrice
              ELSE risk_adjusted_momentum_value(stock, m.val)
    IN  [ticker |-> stock.ticker, momentum_value |-> m.val, risk_adj |-> ra,
         kept |-> ra # NoPrice]

\* step 1 of get_stocks_and_weights: momentum_data, the rows of the stocks
\* that are kept, in the order of the universe
momentum_data_of(universe) ==
    SelectSeq(Col([i \in 1..Len(universe) |-> momentum_row(universe[i])]),
              LAMBDA r : r.kept)

\* MomentumStrategy.get_z_score
get_z_score(value, mean, std) ==
    IF std = Zero THEN Zero
    ELSE PyMax(PyMin(FDiv(FSub(value, mean), std), Int2R(3)), Int2R(-3))

\* MomentumFCFStrategy.get_z_score, and z_score of get_fcf_yield_score
FCF_get_z_score(value, mean, std) ==
    IF std = Zero \/ IsNaN(std) THEN Zero
    ELSE PyMax(PyMin(FDiv(FSub(value, mean), std), Int2R(3)), Int2R(-3))

\* get_momentum_score (and fcf_score_from_z)
get_momentum_score(z) ==
    IF FLt(Zero, z) THEN RAdd(Int2R(1), z)
    ELSE IF FLt(z, Zero) THEN RDiv(Int2R(1), RSub(Int2R(1), z))
    ELSE Int2R(1)

(* =================== strategy scoring: the selection =================== *)
\* the place of row i after a stable sort by key, highest first: one more
\* than the number of rows that go before it
PlaceDesc(rows, i) ==
    1 + Cardinality({j \in 1..Len(rows) :
                        \/ RLt(rows[i].key, rows[j].key)
                        \/ rows[j].key = rows[i].key /\ j < i})

\* DataFrame.sort_values(key, ascending=False).reset_index(drop=True); rows
\* with equal keys keep their order (numpy sorts a short array by insertion)
SortDesc(rows) ==
    Col([k \in 1..Len(rows) |->
            rows[CHOOSE i \in 1..Len(rows) : PlaceDesc(rows, i) = k]])

Min2(a, b) == IF a <= b THEN a ELSE b

RECURSIVE ReAdmit(_, _, _, _)
\* the loop over prev_constituents: a previous constituent that is eligible
\* is added while fewer than target_count are selected
ReAdmit(selected, prev, eligible, target_count) ==
    IF prev = <<>> THEN selected
    ELSE ReAdmit(IF Head(prev) \in eligible
                    /\ Cardinality(selected) < target_count
                 THEN selected \cup {Head(prev)} ELSE selected,
                 Tail(prev), eligible, target_count)

RECURSIVE FillSlots(_, _, _)
\* the loop over the next best: added until target_count are selected
FillSlots(selected, next, target_count) ==
    IF next = <<>> \/ Cardinality(selected) >= target_count THEN selected
    ELSE FillSlots(selected \cup {Head(next)}, Tail(next), target_count)

\* the buffer rule without its last step, the fill with the next best
buffer_rule_nofill(df, target_count, prev) ==
    LET total_stocks == Len(df)
        top_80 == (target_count * 8) \div 10
        top_120 == Min2((target_count * 12) \div 10, total_stocks)
        auto == {df[i].ticker : i \in 1..Min2(top_80, total_stocks)}
        eligible == {df[i].ticker : i \in 1..top_120}
    IN  IF prev # <<>>
        THEN ReAdmit(auto, prev, eligible, target_count) ELSE auto

\* the buffer rule re-admitting a previous constituent whatever its rank
buffer_rule_any_rank(df, target_count, prev) ==
    LET total_stocks == Len(df)
        top_80 == (target_count * 8) \div 10
        auto == {df[i].ticker : i \in 1..Min2(top_80, total_stocks)}
        eligible == {df[i].ticker : i \in 1..total_stocks}
        kept == IF prev # <<>>
                THEN ReAdmit(auto, prev, eligible, target_count) ELSE auto
        next == Col([i \in 1..(Min2(target_count, total_stocks) - top_80)
                        |-> df[top_80 + i].ticker])
    IN  IF Cardinality(kept) < target_count
        THEN FillSlots(kept, next, target_count) ELSE kept

\* step 3 after the sort: the tickers the 20% buffer rule selects
buffer_rule(df, target_count, prev) ==
    LET total_stocks == Len(df)
        top_80 == (target_count * 8) \div 10
        top_120 == Min2((target_count * 12) \div 10, total_stocks)
        auto == {df[i].ticker : i \in 1..Min2(top_80, total_stocks)}
        eligible == {df[i].ticker : i \in 1..top_120}
        kept == IF prev # <<>>
                THEN ReAdmit(auto, prev, eligible, target_count) ELSE auto
        next == Col([i \in 1..(Min2(target_count, total_stocks) - top_80)
                        |-> df[top_80 + i].ticker])
    IN  IF Cardinality(kept) < target_count
        THEN FillSlots(kept, next, target_count) ELSE kept


(* ==================== strategy scoring: the weights ==================== *)
\* what a scoring call did: the exception it raised, the {stock: weight}
\* dict it returned (in the order of its keys), the prev_constituents it
\* left, the z-scores it computed, and whether it divided by a zero total
ScoreOutcome(err, ret, prev, z, divzero) ==
    [err |-> err, ret |-> ret, prev |-> prev, z |-> z, divzero |-> divzero]

\* the market caps step 4 collects: those that are not None
CapsNotNone(universe) ==
    SelectSeq(Col([i \in 1..Len(universe) |-> universe[i].cap]),
              LAMBDA c : c # NoPrice)

\* the tickers of the rows, in order
TickersOf(rows) == Col([i \in 1..Len(rows) |-> rows[i].ticker])

\* fillna(0)
FillNa0(x) == IF IsNaN(x) THEN Zero ELSE x

\* a column divided by a total: uncapped_weight = raw_weight / total_raw,
\* final_weight = capped_weight / total_capped
Normalise(column, total) ==
    Col([i \in 1..Len(column) |-> FDiv(column[i], total)])

\* max_weight = np.minimum(0.09, 3 * ref_weight)
MaxWeight(ref_weight) ==
    Col([i \in 1..Len(ref_weight) |->
        NpMinimum(Rat(9, 100), RMul(Int2R(3), ref_weight[i]))])

\* capped_weight = np.minimum(uncapped_weight, max_weight)
Capped(uncapped_weight, max_weight) ==
    Col([i \in 1..Len(uncapped_weight) |->
        NpMinimum(uncapped_weight[i], max_weight[i])])

\* dict(zip(df_selected["stock"], df_selected["final_weight"]))
WeightsDict(df_selected, final_weight) ==
    Col([i \in 1..Len(df_selected) |->
        [ticker |-> df_selected[i].ticker, weight |-> final_weight[i]]])

\* MomentumStrategy step 4: ref_weight = cap / total_cap, 0 for a missing cap
Momentum_ref_weight(universe, df_selected, total_cap) ==
    Col([i \in 1..Len(df_selected) |->
        LET cap == universe[df_selected[i].ticker].cap IN
        IF cap = NoPrice THEN Zero ELSE FillNa0(FDiv(cap, total_cap))])

\* MomentumStrategy step 5: raw_weight = market_cap * momentum_score
Momentum_raw_weight(universe, df_selected) ==
    Col([i \in 1..Len(df_selected) |->
        FMul(NoneToNaN(universe[df_selected[i].ticker].cap),
             df_selected[i].momentum_score)])

\* MomentumStrategy steps 7 and 8: renormalise, remember, return
Momentum_final(df_selected, prev, z, divzero, capped_weight) ==
    LET total_capped == SumSkipNaN(capped_weight) IN
    InOrder(<<capped_weight>>,
        ScoreOutcome("none",
            WeightsDict(df_selected, Normalise(capped_weight, total_capped)),
            TickersOf(df_selected), z,
            divzero \/ (Len(df_selected) > 0 /\ total_capped = Zero)))

\* MomentumStrategy steps 5 and 6: uncapped weights and the caps on them
Momentum_capped(df_selected, prev, z, divzero, ref_weight, raw_weight) ==
    LET total_raw == SumSkipNaN(raw_weight) IN
    InOrder(<<ref_weight, raw_weight>>,
        Momentum_final(df_selected, prev, z,
            divzero \/ (Len(df_selected) > 0 /\ total_raw = Zero),
            Capped(Normalise(raw_weight, total_raw), MaxWeight(ref_weight))))

\* steps 4 to 8 of MomentumStrategy.get_stocks_and_weights
Momentum_weights(universe, df_selected, prev, z) ==
    IF \E i \in 1..Len(universe) : universe[i].cap_raises
    THEN ScoreOutcome("Exception", <<>>, prev, z, FALSE)
    ELSE
    LET caps == CapsNotNone(universe)
        total_cap == SumSkipNaN(caps)
    IN  Momentum_capped(df_selected, prev, z,
            caps # <<>> /\ total_cap = Zero,
            Momentum_ref_weight(universe, df_selected, total_cap),
            Momentum_raw_weight(universe, df_selected))

\* the risk-adjusted momentum column of momentum_df
RiskAdj(momentum_data) ==
    Col([i \in 1..Len(momentum_data) |-> momentum_data[i].risk_adj])

\* MomentumStrategy step 2: the z-score column
Momentum_z_scores(risk_adj) ==
    LET mean == SeriesMean(risk_adj)
        std == SeriesStd(risk_adj)
    IN  Col([i \in 1..Len(risk_adj) |-> get_z_score(risk_adj[i], mean, std)])

\* MomentumStrategy steps 2 and 3: momentum_score, sorted descending
Momentum_df(momentum_data, z_score) ==
    SortDesc(Col([i \in 1..Len(momentum_data) |->
        [ticker |-> momentum_data[i].ticker,
         momentum_score |-> get_momentum_score(z_score[i]),
         key |-> get_momentum_score(z_score[i])]]))

\* MomentumStrategy step 3: target_count = int(np.round(total_stocks * 0.2))
Momentum_target_count(total_stocks) == (2 * total_stocks + 5) \div 10

\* MomentumStrategy step 3: the rows of the selected tickers, in df's order
Momentum_df_selected(df, prev) ==
    LET selected == buffer_rule(df, Momentum_target_count(Len(df)), prev)
    IN  SelectSeq(df, LAMBDA r : r.ticker \in selected)

\* MomentumStrategy step 3: the selection, then the weights
Momentum_select(universe, prev, df, z) ==
    LET df_selected == Momentum_df_selected(df, prev)
    IN  InOrder(<<df, df_selected>>,
                Momentum_weights(universe, df_selected, prev, z))

\* MomentumStrategy.get_stocks_and_weights(date), on the data of the date
Momentum_get_stocks_and_weights(universe, prev) ==
    LET momentum_data == momentum_data_of(universe)
        z_score == Momentum_z_scores(RiskAdj(momentum_data))
    IN  IF momentum_data = <<>>
        THEN ScoreOutcome("none", <<>>, prev, <<>>, FALSE)
        ELSE InOrder(<<z_score>>,
                 Momentum_select(universe, prev,
                                 Momentum_df(momentum_data, z_score), z_score))

\* MomentumFCFStrategy.fcf_yield_value: fcf / cap, None when either is
\* missing, the cap is not positive, or a lookup raises
fcf_yield_value(stock) ==
    IF stock.cap_raises THEN NoPrice
    ELSE IF stock.fcf = NoPrice \/ stock.cap = NoPrice
            \/ RLe(stock.cap, Zero) THEN NoPrice
    ELSE RDiv(stock.fcf, stock.cap)

\* get_fcf_yield_score: the z-scores of the (filled) FCF yields
get_fcf_yield_score(fcf_yield_series) ==
    LET mean == SeriesMean(fcf_yield_series)
        std == SeriesStd(fcf_yield_series)
    IN  Col([i \in 1..Len(fcf_yield_series) |->
            FCF_get_z_score(fcf_yield_series[i], mean, std)])

\* the {stock: weight} dict divided by its sum s when s > 0 and s is not 1
\* within 1e-6
cleanup(final_weights) ==
    LET s == SumSkipNaN(Col([i \in 1..Len(final_weights) |->
                            final_weights[i].weight]))
        off == RSub(s, Int2R(1))
        far == RLt(Rat(1, 1000000), IF RLt(off, Zero) THEN RSub(Zero, off)
                                    ELSE off)
    IN  IF RLt(Zero, s) /\ far
        THEN Col([i \in 1..Len(final_weights) |->
                 [final_weights[i] EXCEPT !.weight = RDiv(@, s)]])
        ELSE final_weights

\* MomentumFCFStrategy step 4: ref_weight = cap / total_cap for a cap > 0
MomentumFCF_ref_weight(universe, df_selected, total_cap) ==
    Col([i \in 1..Len(df_selected) |->
        LET cap == universe[df_selected[i].ticker].cap IN
        IF cap # NoPrice /\ RLt(Zero, cap) THEN RDiv(cap, total_cap)
        ELSE Zero])

\* MomentumFCFStrategy step 5: raw_weight = market_cap * combined_score
MomentumFCF_raw_weight(universe, df_selected) ==
    Col([i \in 1..Len(df_selected) |->
        FMul(FillNa0(NoneToNaN(universe[df_selected[i].ticker].cap)),
             df_selected[i].combined_score)])

\* MomentumFCFStrategy steps 7 and 8: renormalise, remember, clean up
MomentumFCF_final(df_selected, prev, z, capped_weight) ==
    LET total_capped == SumSkipNaN(capped_weight) IN
    InOrder(<<capped_weight>>,
        IF total_capped = Zero \/ IsNaN(total_capped)
        THEN ScoreOutcome("none", <<>>, prev, z, FALSE)
        ELSE ScoreOutcome("none",
                 cleanup(WeightsDict(df_selected,
                             Normalise(capped_weight, total_capped))),
                 TickersOf(df_selected), z, FALSE))

\* MomentumFCFStrategy steps 5 and 6: uncapped weights and the caps on them
MomentumFCF_capped(df_selected, prev, z, ref_weight, raw_weight) ==
    LET total_raw == SumSkipNaN(raw_weight) IN
    InOrder(<<ref_weight, raw_weight>>,
        IF total_raw = Zero \/ IsNaN(total_raw)
        THEN ScoreOutcome("none", <<>>, prev, z, FALSE)
        ELSE MomentumFCF_final(df_selected, prev, z,
                 Capped(Normalise(raw_weight, total_raw),
                        MaxWeight(ref_weight))))

\* steps 4 to 8 of MomentumFCFStrategy.get_stocks_and_weights
MomentumFCF_weights(universe, df_selected, prev, z) ==
    IF \E i \in 1..Len(universe) : universe[i].cap_raises
    THEN ScoreOutcome("Exception", <<>>, prev, z, FALSE)
    ELSE
    LET caps == SelectSeq(CapsNotNone(universe), LAMBDA c : RLt(Zero, c))
        total_cap == SumSkipNaN(caps)
    IN  IF caps = <<>> \/ RLe(total_cap, Zero)
        THEN ScoreOutcome("none", <<>>, prev, z, FALSE)
        ELSE MomentumFCF_capped(df_selected, prev, z,
                 MomentumFCF_ref_weight(universe, df_selected, total_cap),
                 MomentumFCF_raw_weight(universe, df_selected))

\* a variant that falls back to momentum alone (1.0 and 0.0) when the sum
\* of the weights is <= 0
blend_weights_momentum_only(args) ==
    LET weight_sum == RAdd(args.momentum_weight, args.fcf_weight) IN
    IF RLe(weight_sum, Zero)
    THEN [momentum_w |-> Int2R(1), fcf_w |-> Zero, weight_sum |-> Int2R(1)]
    ELSE [momentum_w |-> args.momentum_weight, fcf_w |-> args.fcf_weight,
          weight_sum |-> weight_sum]

\* lines 111-115: the weights of the blend, 0.5 each when their sum is <= 0
blend_weights(args) ==
    LET weight_sum == RAdd(args.momentum_weight, args.fcf_weight) IN
    IF RLe(weight_sum, Zero)
    THEN [momentum_w |-> Rat(1, 2), fcf_w |-> Rat(1, 2),
          weight_sum |-> Int2R(1)]
    ELSE [momentum_w |-> args.momentum_weight, fcf_w |-> args.fcf_weight,
          weight_sum |-> weight_sum]

\* MomentumFCFStrategy step 1: the momentum z-score column
MomentumFCF_z_scores(risk_adj) ==
    LET mean == SeriesMean(risk_adj)
        std == SeriesStd(risk_adj)
    IN  Col([i \in 1..Len(risk_adj) |->
            FCF_get_z_score(risk_adj[i], mean, std)])

\* MomentumFCFStrategy step 2, first half: the FCF yield column
FcfYield(universe, momentum_data) ==
    Col([i \in 1..Len(momentum_data) |->
        NoneToNaN(fcf_yield_value(universe[momentum_data[i].ticker]))])

\* MomentumFCFStrategy step 2, second half: the FCF z-scores, all 0 when no
\* yield is known, else of the yields with the gaps filled by the mean
MomentumFCF_fcf_z(fcf_yield) ==
    LET fcf_mean == SeriesMean(fcf_yield) IN
    IF \A i \in 1..Len(fcf_yield) : IsNaN(fcf_yield[i])
    THEN Col([i \in 1..Len(fcf_yield) |-> Zero])
    ELSE get_fcf_yield_score(
             Col([i \in 1..Len(fcf_yield) |->
                 IF IsNaN(fcf_yield[i]) THEN fcf_mean ELSE fcf_yield[i]]))

\* MomentumFCFStrategy step 3: combined_score, sorted descending
MomentumFCF_df(momentum_data, w, z_score, fcf_z) ==
    SortDesc(Col([i \in 1..Len(momentum_data) |->
        LET combined_score ==
                RDiv(RAdd(RMul(w.momentum_w, FillNa0(z_score[i])),
                          RMul(w.fcf_w, FillNa0(fcf_z[i]))), w.weight_sum)
        IN  [ticker |-> momentum_data[i].ticker,
             combined_score |-> combined_score,
             key |-> combined_score]]))

\* MomentumFCFStrategy step 3: target_count = max(1, int(np.round(...)))
MomentumFCF_target_count(total_stocks) ==
    LET round == (2 * total_stocks + 5) \div 10
    IN  IF round < 1 THEN 1 ELSE round

\* MomentumFCFStrategy step 3: the rows of the selected tickers, in df's
\* order, or the head of df when none was selected
MomentumFCF_df_selected(df, prev) ==
    LET target_count == MomentumFCF_target_count(Len(df))
        selected == buffer_rule(df, target_count, prev)
        picked == SelectSeq(df, LAMBDA r : r.ticker \in selected)
    IN  IF picked = <<>>
        THEN SubSeq(df, 1, Min2(target_count, Len(df)))
        ELSE picked

\* MomentumFCFStrategy step 3: the selection, then the weights
MomentumFCF_select(universe, prev, df, z) ==
    LET df_selected == MomentumFCF_df_selected(df, prev)
    IN  InOrder(<<df, df_selected>>,
                MomentumFCF_weights(universe, df_selected, prev, z))

\* MomentumFCFStrategy steps 1 to 3 on the rows of momentum_df
MomentumFCF_scored(universe, prev, w, momentum_data, z_score, fcf_z) ==
    InOrder(<<z_score, fcf_z>>,
        MomentumFCF_select(universe, prev,
            MomentumFCF_df(momentum_data, w, z_score, fcf_z),
            z_score \o fcf_z))

\* MomentumFCFStrategy.get_stocks_and_weights(date, args), on the data of
\* the date
MomentumFCF_get_stocks_and_weights(universe, prev, args) ==
    LET momentum_data == momentum_data_of(universe) IN
    IF momentum_data = <<>> THEN ScoreOutcome("none", <<>>, prev, <<>>, FALSE)
    ELSE MomentumFCF_scored(universe, prev, blend_weights(args),
             momentum_data,
             MomentumFCF_z_scores(RiskAdj(momentum_data)),
             MomentumFCF_fcf_z(FcfYield(universe, momentum_data)))


(* ================ strategy scoring: the calls on a strategy ============ *)
\* the Portfolio of the ledger specification, not in use here
LedgerIdle ==
    /\ cash = Zero
    /\ start_cash = Zero
    /\ holdings = EmptyMap
    /\ objs = <<>>
    /\ trade_log = <<>>
    /\ holdings_history = <<>>
    /\ value_history = <<>>
    /\ last = [NoCall EXCEPT !.op = "none"]
    /\ nops = 0

\* MomentumStrategy(universe) or MomentumFCFStrategy(universe)
InitScore ==
    /\ strategy \in {"momentum", "blend"}
    /\ prev_constituents = <<>>
    /\ score_last = [op |-> "new", view |-> <<>>, args |-> <<>>,
                     pre |-> <<>>, err |-> "none", ret |-> <<>>, z |-> <<>>,
                     divzero |-> FALSE, calls |-> 0]
    /\ LedgerIdle
    /\ DataIdle
    /\ PickIdle
    /\ RunIdle

\* the strategy after a call with outcome r
Scored(v, args, r) ==
    /\ score_last.calls < MaxCalls
    /\ prev_constituents' = r.prev
    /\ score_last' = [op |-> "score", view |-> v, args |-> args,
                      pre |-> prev_constituents, err |-> r.err,
                      ret |-> r.ret, z |-> r.z, divzero |-> r.divzero,
                      calls |-> score_last.calls + 1]
    /\ UNCHANGED strategy
    /\ UNCHANGED vars
    /\ UNCHANGED <<dataVars, pickVars, runVars>>

\* MomentumStrategy.get_stocks_and_weights(date) with the data v of the date
Score(v) ==
    /\ strategy = "momentum"
    /\ Scored(v, <<>>,
              Momentum_get_stocks_and_weights(Universe(v), prev_constituents))

\* MomentumFCFStrategy.get_stocks_and_weights(date, args)
ScoreFCF(v, args) ==
    /\ strategy = "blend"
    /\ Scored(v, args,
              MomentumFCF_get_stocks_and_weights(Universe(v),
                                                 prev_constituents, args))

NextScore ==
    \/ \E v \in Views : v.fcf = "none" /\ Score(v)
    \/ \E v \in BlendViews, args \in ArgChoices : ScoreFCF(v, args)

SpecScore == InitScore /\ [][NextScore]_<<vars, scoreVars, dataVars, pickVars, runVars>>


(* ================== strategy scoring: what is claimed ================== *)
\* a scoring call has returned a dict
ScoreReturned == score_last.op = "score" /\ score_last.err = "none"

\* the weights of the returned dict, in its order
ReturnedWeights ==
    Col([i \in 1..Len(score_last.ret) |-> score_last.ret[i].weight])

\* sum(weights.values()): NaN as soon as one weight is NaN
WeightSum(weights) ==
    IF \E i \in 1..Len(weights) : IsNaN(weights[i]) THEN NaN
    ELSE SumSkipNaN(weights)

\* |x - 1| <= 1e-6
NearOne(x) ==
    /\ ~IsNaN(x)
    /\ FLe(RSub(Int2R(1), Rat(1, 1000000)), x)
    /\ FLe(x, RAdd(Int2R(1), Rat(1, 1000000)))

\* C11: every weight a strategy (momentum or blend) returns lies in [0, 1].
C11_WeightsInUnitInterval ==
    ScoreReturned =>
        \A i \in 1..Len(ReturnedWeights) :
            /\ FLe(Zero, ReturnedWeights[i])
            /\ FLe(ReturnedWeights[i], Int2R(1))

\* C12: whenever a momentum strategy (plain or blend) returns a non-empty
\* result, its weights sum to 1 within 1e-6.
C12_NonEmptySumsToOne ==
    (ScoreReturned /\ score_last.ret # <<>>) =>
        NearOne(WeightSum(ReturnedWeights))

\* C14: a zero or undefined total (market cap, raw weight, capped weight)
\* makes the strategy return the empty result, before any division by it:
\* no call divides by a zero total and no returned weight is undefined.
C14_ZeroTotalGivesEmpty ==
    score_last.op = "score" =>
        /\ ~score_last.divzero
        /\ \A i \in 1..Len(ReturnedWeights) : ~IsNaN(ReturnedWeights[i])

\* C15: a failure raised while reading the data of one instrument, at any
\* stage of scoring, never aborts the call: the call returns.
C15_FailureIsLocal ==
    score_last.op = "score" => score_last.err = "none"

\* C16: every z-score a strategy computes lies in [-3, 3], whatever the
\* cross-section (a single surviving instrument and zero spread included).
C16_ZScoresBounded ==
    score_last.op = "score" =>
        \A i \in 1..Len(score_last.z) :
            /\ FLe(Int2R(-3), score_last.z[i])
            /\ FLe(score_last.z[i], Int2R(3))


\* the blend was called with weight parameters that sum to 0 or less
NonPositiveArgs ==
    /\ score_last.op = "score"
    /\ strategy = "blend"
    /\ RLe(RAdd(score_last.args.momentum_weight, score_last.args.fcf_weight),
           Zero)

\* the outcome of the same call with both weights 0.5
WithDefaultArgs ==
    MomentumFCF_get_stocks_and_weights(Universe(score_last.view),
        score_last.pre,
        [momentum_weight |-> Rat(1, 2), fcf_weight |-> Rat(1, 2)])

\* C20 (as stated): weight parameters that sum to 0 or less make the scoring
\* call fail with a configuration error and produce no target weights.
C20_NonPositiveSumFails ==
    NonPositiveArgs =>
        /\ score_last.err = "ConfigurationError"
        /\ score_last.ret = <<>>

\* C20 (amended): weight parameters that sum to 0 or less are not an error:
\* the call behaves exactly as with momentum_weight = fcf_weight = 0.5 (same
\* exception or returned weights, same remembered constituents).
C20_NonPositiveSumDefaults ==
    NonPositiveArgs =>
        /\ score_last.err = WithDefaultArgs.err
        /\ score_last.ret = WithDefaultArgs.ret
        /\ prev_constituents = WithDefaultArgs.prev

\* a call with weights summing to 0 or less that returned target weights
\* built from both signals
C20_Witness ==
    /\ NonPositiveArgs
    /\ score_last.view.fcf = "ramp"
    /\ score_last.err = "none"
    /\ score_last.ret # <<>>


(* ================= valuation reconstruction: the window ================ *)
\* the recorded dates of a value history
RecordedDates(history) == {history[i].date : i \in 1..Len(history)}

\* C19: after any rebalances (two on the same date included), the
\* reconstruction leaves exactly one point for every day from the first to
\* the last rebalance date, in strictly increasing date order.
C19_OnePointPerDay ==
    LET raw == last.pre.value_history
        first == CHOOSE d \in RecordedDates(raw) :
                     \A e \in RecordedDates(raw) : d <= e
        final == CHOOSE d \in RecordedDates(raw) :
                     \A e \in RecordedDates(raw) : e <= d
    IN  (last.op = "smooth" /\ raw # <<>>)
        => /\ last.err = "none"
           /\ Len(value_history) = final - first + 1
           /\ \A i \in 1..Len(value_history) :
                 value_history[i].date = first + i - 1


(* ========================= the as-of lookups =========================== *)
(* A series maps the days that have an entry to the entry's value; a date  *)
(* asked for is a timestamp, a day and a time of day.                     *)
\* last day a series may have an entry on, or a lookup may ask for
MaxDay == 3
Days == 0..MaxDay
\* time of day of the date asked for: midnight or later
Clocks == {0, 1}
Timestamps == [day : Days, clock : Clocks]
EntryValues == {Int2R(1), Int2R(2)}
\* every series over the days
SeriesChoices == UNION {[S -> EntryValues] : S \in SUBSET Days}

\* pd.to_datetime(date).tz_localize(None).normalize(): midnight of the day
normalize(date) == [date EXCEPT !.clock = 0]

\* the entry dated nearest to the day, before or after it
nearest_any(valid_dates, day) ==
    IF valid_dates = {} THEN -1
    ELSE CHOOSE x \in valid_dates :
            \A y \in valid_dates :
                \/ Abs(x - day) < Abs(y - day)
                \/ Abs(x - day) = Abs(y - day) /\ x >= y

\* valid_dates[valid_dates <= date].max(); NaT is -1
nearest_prior(valid_dates, day) ==
    LET prior == {x \in valid_dates : x <= day} IN
    IF prior = {} THEN -1
    ELSE CHOOSE x \in prior : \A y \in prior : y <= x

\* Stock.get_price_at_date on a given price_history
Stock_get_price_at_date(price_history, date) ==
    LET day == normalize(date).day
        nearest == nearest_prior(DOMAIN price_history, day)
    IN  IF day \in DOMAIN price_history THEN price_history[day]
        ELSE IF nearest = -1 THEN NoPrice
        ELSE price_history[nearest]

\* Stock.get_market_cap_at_date on a given market_cap_history
Stock_get_market_cap_at_date(market_cap_history, date) ==
    LET day == normalize(date).day
        nearest == nearest_prior(DOMAIN market_cap_history, day)
    IN  IF day \in DOMAIN market_cap_history THEN market_cap_history[day]
        ELSE IF nearest = -1 THEN NoPrice
        ELSE market_cap_history[nearest]

\* a Stock with some series, nothing looked up yet
InitAsOf ==
    /\ series \in SeriesChoices
    /\ asof_last = [op |-> "new", date |-> [day |-> 0, clock |-> 0],
                    ret |-> NoPrice]
    /\ LedgerIdle
    /\ ScoreIdle
    /\ PickIdle
    /\ RunIdle

\* stock.get_price_at_date(date)
PriceAt(date) ==
    /\ asof_last' = [op |-> "price", date |-> date,
                     ret |-> Stock_get_price_at_date(series, date)]
    /\ UNCHANGED <<series, vars, scoreVars, pickVars, runVars>>

\* stock.get_market_cap_at_date(date)
MarketCapAt(date) ==
    /\ asof_last' = [op |-> "market_cap", date |-> date,
                     ret |-> Stock_get_market_cap_at_date(series, date)]
    /\ UNCHANGED <<series, vars, scoreVars, pickVars, runVars>>

NextAsOf ==
    \/ \E date \in Timestamps : PriceAt(date)
    \/ \E date \in Timestamps : MarketCapAt(date)

SpecAsOf == InitAsOf /\ [][NextAsOf]_<<vars, scoreVars, dataVars, pickVars, runVars>>

\* the days of the series at or before the day the last lookup asked for
EntriesUpTo == {x \in DOMAIN series : x <= asof_last.date.day}

\* C17: an as-of lookup (price or market cap) never looks ahead: it returns
\* the value of the latest entry dated at or before the date asked for, and
\* reports unavailable when the series has no such entry.
C17_NoLookAhead ==
    asof_last.op \in {"price", "market_cap"} =>
        IF EntriesUpTo = {} THEN asof_last.ret = NoPrice
        ELSE \E x \in EntriesUpTo :
                /\ \A y \in EntriesUpTo : y <= x
                /\ asof_last.ret = series[x]

\* a lookup for a day without an entry, with a different value recorded on
\* the next day, that returned the earlier entry
C17_Witness ==
    /\ asof_last.op \in {"price", "market_cap"}
    /\ asof_last.date.day \notin DOMAIN series
    /\ asof_last.date.day + 1 \in DOMAIN series
    /\ EntriesUpTo # {}
    /\ asof_last.ret # series[asof_last.date.day + 1]
    /\ asof_last.ret # NoPrice


(* ================== TestHighestPriceStrategy: top N ==================== *)
(* The universe is a list of stocks, stock i with the ticker i; quotes[i]  *)
(* is stock i's price_history.asof(date), NaN when it has no entry at or   *)
(* before the date.                                                        *)
\* number of stocks of the universe
UniverseLen == 3
\* prices as of the date: none, zero, or one of three positive prices
QuoteChoices == {NaN, Zero, Int2R(10), Int2R(20), Int2R(30)}
\* values of the parameter n
TopChoices == 1..UniverseLen

\* the orders sorted(universe, key=price, reverse=True) may return: the
\* stable descending order; with a NaN among the keys the comparisons are
\* inconsistent and the order is whatever the sort makes of them
SortedOrders(q) ==
    IF \E i \in 1..Len(q) : IsNaN(q[i])
    THEN {o \in [1..Len(q) -> 1..Len(q)] :
             \A i, j \in 1..Len(q) : i # j => o[i] # o[j]}
    ELSE {TickersOf(SortDesc(Col([i \in 1..Len(q) |->
                                     [ticker |-> i, key |-> q[i]]])))}

\* a variant of get_stock_weights that gives every kept stock the same
\* weight, 1 / (number kept)
get_stock_weights_equal(stocks, q) ==
    LET kept == SelectSeq(stocks, LAMBDA t : FLt(Zero, q[t])) IN
    Col([i \in 1..Len(kept) |->
        [ticker |-> kept[i], weight |-> Rat(1, Len(kept))]])

\* TestHighestPriceStrategy.get_stock_weights: price / total price for the
\* stocks with a price > 0
get_stock_weights(stocks, q) ==
    LET kept == SelectSeq(stocks, LAMBDA t : FLt(Zero, q[t]))
        total_price == SumSkipNaN(Col([i \in 1..Len(kept) |-> q[kept[i]]]))
    IN  IF RLt(Zero, total_price)
        THEN Col([i \in 1..Len(kept) |->
                 [ticker |-> kept[i],
                  weight |-> RDiv(q[kept[i]], total_price)]])
        ELSE <<>>

\* TestHighestPriceStrategy.get_top_stocks_and_weights(date, n), the sort
\* having returned sorted_universe
get_top_stocks_and_weights(q, sorted_universe, n) ==
    get_stock_weights(SubSeq(sorted_universe, 1, Min2(n, Len(sorted_universe))),
                      q)

\* TestHighestPriceStrategy(universe), its prices as of some date
InitPick ==
    /\ quotes \in [1..UniverseLen -> QuoteChoices]
    /\ pick_last = [op |-> "new", n |-> 0, order |-> <<>>, ret |-> <<>>]
    /\ LedgerIdle
    /\ ScoreIdle
    /\ DataIdle
    /\ RunIdle

\* strategy.get_top_stocks_and_weights(date, n)
Pick(n) ==
    \E order \in SortedOrders(quotes) :
        /\ pick_last' = [op |-> "top", n |-> n, order |-> order,
                         ret |-> get_top_stocks_and_weights(quotes, order, n)]
        /\ UNCHANGED <<quotes, vars, scoreVars, dataVars, runVars>>

NextPick == \E n \in TopChoices : Pick(n)

SpecPick == InitPick /\ [][NextPick]_<<vars, scoreVars, dataVars, pickVars, runVars>>

\* the tickers of the returned weights
Picked == {pick_last.ret[i].ticker : i \in 1..Len(pick_last.ret)}

\* the stocks with a price > 0 as of the date
Priced == {t \in 1..UniverseLen : FLt(Zero, quotes[t])}

\* every stock has an entry at or before the date
AllQuoted == \A t \in 1..UniverseLen : ~IsNaN(quotes[t])

\* the picked stocks are the min(n, number priced) highest priced ones
PickedAreHighest ==
    /\ Cardinality(Picked) = Min2(pick_last.n, Cardinality(Priced))
    /\ \A t \in Picked : \A u \in Priced \ Picked : RLe(quotes[u], quotes[t])

\* C13 (as stated): top-N selects the N stocks with the highest valid price
\* and gives each the weight 1 / (number selected); for prices {A: 10,
\* B: 30, C: 20} and N = 2 the result is {B: 0.5, C: 0.5}.
C13_EqualWeightTopN ==
    pick_last.op = "top" =>
        /\ Picked \subseteq Priced
        /\ PickedAreHighest
        /\ \A i \in 1..Len(pick_last.ret) :
              pick_last.ret[i].weight = Rat(1, Len(pick_last.ret))

\* C13 (amended): the result holds at most N stocks, each with a price > 0,
\* and gives each the weight price / (sum of the prices of the stocks in the
\* result); when every stock has a price as of the date they are the N
\* highest priced ones.
C13_PriceWeightedTopN ==
    pick_last.op = "top" =>
        LET total == SumSkipNaN(Col([i \in 1..Len(pick_last.ret) |->
                                        quotes[pick_last.ret[i].ticker]]))
        IN  /\ Picked \subseteq Priced
            /\ Cardinality(Picked) = Len(pick_last.ret)
            /\ Len(pick_last.ret) <= pick_last.n
            /\ \A i \in 1..Len(pick_last.ret) :
                  pick_last.ret[i].weight
                      = RDiv(quotes[pick_last.ret[i].ticker], total)
            /\ AllQuoted => PickedAreHighest

\* the scenario of the claim: prices {A: 10, B: 30, C: 20}, N = 2, with the
\* result {B: 0.6, C: 0.4}
C13_Witness ==
    /\ pick_last.op = "top"
    /\ pick_last.n = 2
    /\ quotes = <<Int2R(10), Int2R(30), Int2R(20)>>
    /\ pick_last.ret = <<[ticker |-> 2, weight |-> Rat(3, 5)],
                         [ticker |-> 3, weight |-> Rat(2, 5)]>>


(* ==================== Algorithim.run_backtest ========================== *)
(* A TestHighestPriceStrategy over UniverseLen stocks (stock i with the    *)
(* ticker i) runs run_backtest(start, end, interval).  current_holdings is *)
(* the dict in insertion order: a sequence of [ticker, shares].            *)
\* last day a backtest window may end on
LastDay == 30
\* the price history of a stock: no entry / one entry on day 0 / entries on
\* days 7 and 14 only
PriceShapes == {"none", "flat", "late"}
\* (start, end) of the windows run; the last one holds no date
RunWindows == {[start |-> 0, end |-> 0], [start |-> 0, end |-> 14],
               [start |-> 0, end |-> LastDay], [start |-> 7, end |-> 0]}
Intervals == {"1mo", "1wk"}
\* initial_capital of TestHighestPriceStrategy(universe, initial_capital):
\* the default, and one that buys a single share of each stock
InitialCapitals == {30, 10000}

\* Stock.price_history of stock i
price_history_of(shape, i) ==
    CASE shape = "none" -> <<>>
      [] shape = "flat" -> (0 :> Int2R(10 * i))
      [] OTHER -> (7 :> Int2R(10 * i)) @@ (14 :> Int2R(20 * i))

\* pd.Series.asof(date): the last entry at or before the date, else NaN
asof(price_history, date) ==
    LET nearest == nearest_prior(DOMAIN price_history, date) IN
    IF nearest = -1 THEN NaN ELSE price_history[nearest]

\* price_history.asof(date) of every stock of the universe
QuotesAt(a, date) ==
    Col([i \in 1..UniverseLen |->
            asof(price_history_of(a.shapes[i], i), date)])

\* stock.get_price_at_date(date) of stock t
RunPrice(a, t, date) ==
    Stock_get_price_at_date(price_history_of(a.shapes[t], t),
                            [day |-> date, clock |-> 0])

\* tradelogger.log_trade for a stock of the Algorithim
Algorithim_log_trade(a, action, t, quantity, date) ==
    [action |-> action, ticker |-> t, quantity |-> quantity, date |-> date,
     price |-> RunPrice(a, t, date)]

IsHeld(current_holdings, t) ==
    \E k \in 1..Len(current_holdings) : current_holdings[k].ticker = t

\* self.current_holdings.get(ticker, {}).get("shares", 0)
HeldShares(current_holdings, t) ==
    IF IsHeld(current_holdings, t)
    THEN current_holdings[CHOOSE k \in 1..Len(current_holdings) :
                              current_holdings[k].ticker = t].shares
    ELSE 0

\* Stock.get_value_at_date: price * shares, 0 without a price
get_value_at_date(a, t, date, shares) ==
    IF RunPrice(a, t, date) = NoPrice THEN Zero
    ELSE RMul(RunPrice(a, t, date), Int2R(shares))

\* Algorithim.get_portfolio_value
Algorithim_get_portfolio_value(a, date) ==
    SumSkipNaN(Col([k \in 1..Len(a.current_holdings) |->
        get_value_at_date(a, a.current_holdings[k].ticker, date,
                          a.current_holdings[k].shares)]))

\* Algorithim.buy_stock
Algorithim_buy_stock(a, t, shares, date) ==
    [a EXCEPT
        !.current_holdings =
            IF IsHeld(@, t)
            THEN Col([k \in 1..Len(@) |->
                     IF @[k].ticker = t
                     THEN [@[k] EXCEPT !.shares = @ + shares] ELSE @[k]])
            ELSE Append(@, [ticker |-> t, shares |-> shares]),
        !.trade_log = Append(@, Algorithim_log_trade(a, "BUY", t, shares,
                                                     date))]

\* lines 92-95: the partial sell, which keeps the holding
partial_sell(a, t, shares_diff, date) ==
    [a EXCEPT
        !.current_holdings =
            Col([k \in 1..Len(@) |->
                IF @[k].ticker = t
                THEN [@[k] EXCEPT !.shares = @ + shares_diff] ELSE @[k]]),
        !.trade_log = Append(@, Algorithim_log_trade(a, "SELL", t,
                                                     -shares_diff, date))]

\* lines 74-77: every holding that is not a target is sold and deleted
sell_non_targets(a, targets, date) ==
    LET gone == SelectSeq(a.current_holdings,
                          LAMBDA h : h.ticker \notin targets)
    IN  [a EXCEPT
            !.current_holdings = SelectSeq(@, LAMBDA h : h.ticker \in targets),
            !.trade_log = @ \o Col([k \in 1..Len(gone) |->
                Algorithim_log_trade(a, "SELL", gone[k].ticker,
                                     gone[k].shares, date)])]

\* lines 80-95 for one (stock, weight) item
adjust_position(a, item, q, date, portfolio_value) ==
    LET target_value == RMul(portfolio_value, item.weight)
        current_price == q[item.ticker]
        ratio == RDiv(target_value, current_price)
        target_shares == ratio.n \div ratio.d
        current_shares == HeldShares(a.current_holdings, item.ticker)
        shares_diff == target_shares - current_shares
    IN  IF ~FLt(Zero, current_price) THEN a
        ELSE IF shares_diff > 0
        THEN Algorithim_buy_stock(a, item.ticker, shares_diff, date)
        ELSE IF shares_diff < 0
        THEN partial_sell(a, item.ticker, shares_diff, date)
        ELSE a

RECURSIVE adjust_positions(_, _, _, _, _, _)
\* the loop of lines 80-95 from item k on
adjust_positions(a, stocks_and_weights, k, q, date, portfolio_value) ==
    IF k > Len(stocks_and_weights) THEN a
    ELSE adjust_positions(
             adjust_position(a, stocks_and_weights[k], q, date,
                             portfolio_value),
             stocks_and_weights, k + 1, q, date, portfolio_value)

\* Algorithim.rebalance_portfolio_with_weights
Algorithim_rebalance_portfolio_with_weights(a, stocks_and_weights, date, portfolio_value) ==
    adjust_positions(
        sell_non_targets(a, {stocks_and_weights[k].ticker :
                                k \in 1..Len(stocks_and_weights)}, date),
        stocks_and_weights, 1, QuotesAt(a, date), date, portfolio_value)

\* lines 146-148 and 126-128: the value, or the initial capital when it is 0
or_initial_capital(a, portfolio_val) ==
    IF portfolio_val = Zero THEN a.initial_capital ELSE portfolio_val

\* TestHighestPriceStrategy.rebalance(date), the weights being computed
TestHighestPriceStrategy_rebalance(a, stocks_and_weights, date) ==
    Algorithim_rebalance_portfolio_with_weights(a, stocks_and_weights, date,
        or_initial_capital(a, Algorithim_get_portfolio_value(a, date)))

\* a variant of line 129 that records the value as computed
recorded_value_raw(a, portfolio_val) == portfolio_val

\* lines 126-129: the value run_backtest records for a date
recorded_value(a, portfolio_val) == or_initial_capital(a, portfolio_val)

\* TestHighestPriceStrategy(universe), no backtest started
InitRun ==
    /\ \E shapes \in [1..UniverseLen -> PriceShapes],
          initial_capital \in InitialCapitals :
          algo = [shapes |-> shapes, current_holdings |-> <<>>,
                  trade_log |-> <<>>,
                  initial_capital |-> Int2R(initial_capital)]
    /\ run = [pc |-> "idle", start |-> 0, current_date |-> 0, end |-> 0,
              delta |-> 0,
              holding_history |-> <<>>, value_history |-> <<>>,
              weights |-> <<>>]
    /\ LedgerIdle
    /\ ScoreIdle
    /\ DataIdle
    /\ PickIdle

\* run_backtest(start, end, interval), lines 114-121
RunBacktest(w, interval) ==
    /\ run.pc = "idle"
    /\ run' = [run EXCEPT !.pc = "loop", !.start = w.start,
                          !.current_date = w.start, !.end = w.end,
                          !.delta = IF interval = "1mo" THEN 30 ELSE 7]
    /\ UNCHANGED <<algo, vars, scoreVars, dataVars, pickVars>>

\* a loop that stops one date early: current_date < end
loop_condition_strict(current_date, end) == current_date < end

\* line 122, the condition of the loop: current_date <= end
loop_condition(current_date, end) == current_date <= end

\* one iteration of the loop, lines 122-130
Iterate ==
    /\ run.pc = "loop"
    /\ loop_condition(run.current_date, run.end)
    /\ \E order \in SortedOrders(QuotesAt(algo, run.current_date)) :
          LET date == run.current_date
              stocks_and_weights ==
                  get_top_stocks_and_weights(QuotesAt(algo, date), order, 10)
              a == TestHighestPriceStrategy_rebalance(algo,
                       stocks_and_weights, date)
          IN  /\ algo' = a
              /\ run' = [run EXCEPT
                    !.holding_history =
                        Append(@, [date |-> date,
                                   snap |-> a.current_holdings]),
                    !.value_history =
                        Append(@, [date |-> date,
                                   value |-> recorded_value(a,
                                       Algorithim_get_portfolio_value(a,
                                                                      date))]),
                    !.weights = Append(@, stocks_and_weights),
                    !.current_date = @ + run.delta]
    /\ UNCHANGED <<vars, scoreVars, dataVars, pickVars>>

\* the loop ends, line 132
Return ==
    /\ run.pc = "loop"
    /\ ~loop_condition(run.current_date, run.end)
    /\ run' = [run EXCEPT !.pc = "returned"]
    /\ UNCHANGED <<algo, vars, scoreVars, dataVars, pickVars>>

NextRun ==
    \/ \E w \in RunWindows, interval \in Intervals : RunBacktest(w, interval)
    \/ Iterate
    \/ Return

allVars == <<vars, scoreVars, dataVars, pickVars, runVars>>

\* A step of the loop is possible exactly while run.pc = "loop" (Iterate
\* and Return have complementary conditions on current_date and nothing
\* else stops them), so weak fairness of the loop, WF_allVars(Iterate \/
\* Return), is: steps of the loop keep happening, or the run keeps leaving
\* the loop.
LoopRunsOn ==
    \/ []<><<Iterate \/ Return>>_allVars
    \/ []<>(run.pc # "loop")

\* run_backtest, its loop running on once started
SpecRun == InitRun /\ [][NextRun]_allVars /\ LoopRunsOn


\* the strategy gave empty target weights at every date of the run (which
\* is so, too, when the window holds no date)
AllWeightsEmpty == \A i \in 1..Len(run.weights) : run.weights[i] = <<>>

\* the number of dates run_backtest visits
ScheduledDates ==
    IF run.start > run.end THEN 0
    ELSE (run.end - run.start) \div run.delta + 1

ClampedBuy ==
    /\ last.op = "buy"
    /\ last.err = "none"
    /\ RLt(last.pre.cash,
           RMul(last.shares, get_price_at_date(last.ticker, last.date)))

\* the shares the last call added to the holding of its ticker
Bought == RSub(SharesOf(Self, last.ticker), SharesOf(last.pre, last.ticker))

\* C21: when the cost of the requested shares exceeds the cash, buy_stock
\* buys exactly floor(cash / price) shares and pays for them (nothing, with
\* no trade logged, when that is 0); the cash left is non-negative and less
\* than one share price.
C21_ClampedBuyFloors ==
    ClampedBuy =>
        LET price == get_price_at_date(last.ticker, last.date)
            affordable == RFloorDiv(last.pre.cash, price)
        IN  /\ Bought = affordable
            /\ affordable.d = 1
            /\ cash = RSub(last.pre.cash, RMul(affordable, price))
            /\ RLe(Zero, cash)
            /\ RLt(cash, price)
            /\ affordable = Zero => trade_log = last.pre.trade_log
            /\ affordable # Zero =>
                  /\ Len(trade_log) = Len(last.pre.trade_log) + 1
                  /\ trade_log[Len(trade_log)].quantity = affordable

\* a clamped buy that bought some shares and left cash over
C21_Witness ==
    /\ ClampedBuy
    /\ RLt(Zero, Bought)
    /\ RLt(Bought, last.shares)
    /\ RLt(Zero, cash)

\* a clamped buy that could afford no share
C21_WitnessNothing ==
    /\ ClampedBuy
    /\ Bought = Zero


(* ================= strategy scoring: the buffer rule =================== *)
(* Step 3 of get_stocks_and_weights on its own: each call ranks the stocks *)
(* that survived step 1 (tickers 1..n) and selects; the weights of steps   *)
(* 4 to 7 are taken to succeed, so that the call stores its selection in   *)
(* prev_constituents.                                                      *)
\* numbers of surviving stocks: target_count is 0 or 1, 2, 5 and 6
SelectSizes == {1, 2, 8, 23, 28}
\* a ranking orders ticker t by (mult * t + shift) mod RankModulus
RankModulus == 29
RankMults == {1, 2, 28}
RankShifts == {0, 3, 11}
\* the number of selections made on one strategy object
MaxSelects == 2

\* df after sort_values(...).reset_index(drop=True): the n rows, the score
\* of ticker t being higher the smaller (mult * t + shift) mod RankModulus
RankedDf(n, mult, shift) ==
    SortDesc(Col([t \in 1..n |->
        [ticker |-> t,
         key |-> Int2R(RankModulus - ((mult * t + shift) % RankModulus))]]))

\* MomentumStrategy(universe) or MomentumFCFStrategy(universe)
InitSelect ==
    /\ strategy \in {"momentum", "blend"}
    /\ prev_constituents = <<>>
    /\ score_last = [op |-> "new", df |-> <<>>, pre |-> <<>>,
                     selected |-> <<>>, calls |-> 0]
    /\ LedgerIdle
    /\ DataIdle
    /\ PickIdle
    /\ RunIdle

\* the strategy after a call that selected the rows df_selected of df
Selected(df, df_selected) ==
    /\ score_last.calls < MaxSelects
    /\ prev_constituents' = TickersOf(df_selected)
    /\ score_last' = [op |-> "select", df |-> TickersOf(df),
                      pre |-> prev_constituents,
                      selected |-> TickersOf(df_selected),
                      calls |-> score_last.calls + 1]
    /\ UNCHANGED strategy
    /\ UNCHANGED vars
    /\ UNCHANGED <<dataVars, pickVars, runVars>>

\* MomentumStrategy.get_stocks_and_weights, steps 3 to 7
Select(df) ==
    /\ strategy = "momentum"
    /\ Selected(df, Momentum_df_selected(df, prev_constituents))

\* MomentumFCFStrategy.get_stocks_and_weights, steps 3 to 7
SelectFCF(df) ==
    /\ strategy = "blend"
    /\ Selected(df, MomentumFCF_df_selected(df, prev_constituents))

NextSelect ==
    \/ \E n \in SelectSizes, mult \in RankMults, shift \in RankShifts :
          Select(RankedDf(n, mult, shift))
    \/ \E n \in SelectSizes, mult \in RankMults, shift \in RankShifts :
          SelectFCF(RankedDf(n, mult, shift))

SpecSelect == InitSelect /\ [][NextSelect]_allVars

\* a selection has been made
SelectionMade == score_last.op = "select"

\* round(0.2 x N) for the N ranked stocks of the last call
RoundFifth == (2 * Len(score_last.df) + 5) \div 10

\* the rank of ticker t in the ranking of the last call (0: not ranked)
RankOf(t) ==
    IF \E i \in 1..Len(score_last.df) : score_last.df[i] = t
    THEN CHOOSE i \in 1..Len(score_last.df) : score_last.df[i] = t
    ELSE 0

\* the tickers selected at the previous rebalance
Previous == {score_last.pre[i] : i \in 1..Len(score_last.pre)}

\* the tickers the last call selected
Chosen == {score_last.selected[i] : i \in 1..Len(score_last.selected)}

\* C22 (as stated): the buffer rule selects exactly round(0.2 x N) of the N
\* ranked instruments, in both strategies.
C22_SelectsRoundFifth ==
    SelectionMade => Cardinality(Chosen) = RoundFifth

\* C22 (amended): the buffer rule selects exactly target_count of the N
\* ranked instruments, whatever the previous constituents: round(0.2 x N)
\* in the momentum strategy, and max(1, round(0.2 x N)) in the blend.
C22_SelectsTargetCount ==
    SelectionMade =>
        /\ Len(score_last.selected) = Cardinality(Chosen)
        /\ Cardinality(Chosen) =
              IF strategy = "blend" /\ RoundFifth < 1 THEN 1 ELSE RoundFifth

\* a selection of 5 or more with a previous constituent re-admitted from
\* below the target
C22_Witness ==
    /\ SelectionMade
    /\ RoundFifth >= 5
    /\ \E t \in Chosen : RankOf(t) > RoundFifth

\* target_count of the last call, and the ranks it derives from it
TargetCount == IF strategy = "blend" /\ RoundFifth < 1 THEN 1 ELSE RoundFifth
Top80 == (TargetCount * 8) \div 10
Top120 == Min2((TargetCount * 12) \div 10, Len(score_last.df))

\* the previous constituents the loop of the last call had reached before
\* its k-th that rank within the top 120%
EarlierEligible(k) ==
    {score_last.pre[j] : j \in {i \in 1..(k - 1) :
        RankOf(score_last.pre[i]) \in 1..Top120}}

\* C23: every instrument ranked within the top 80% of target_count is
\* selected; an instrument ranked below target_count is selected only if it
\* was selected at the previous rebalance and ranks within the top 120%;
\* a previous constituent within the top 120% is left out only when the
\* top 80% and the previous constituents before it had taken every slot.
C23_BufferRule ==
    SelectionMade =>
        /\ \A i \in 1..Top80 : score_last.df[i] \in Chosen
        /\ \A t \in Chosen :
              RankOf(t) > TargetCount =>
                  /\ t \in Previous
                  /\ RankOf(t) <= Top120
        /\ \A k \in 1..Len(score_last.pre) :
              (/\ RankOf(score_last.pre[k]) \in 1..Top120
               /\ score_last.pre[k] \notin Chosen) =>
                  Cardinality({score_last.df[i] : i \in 1..Top80}
                              \cup EarlierEligible(k)) >= TargetCount

\* a previous constituent ranked below the target was re-admitted, another
\* within the top 120% found no slot, and an instrument ranked within the
\* target was left out for it
C23_Witness ==
    /\ SelectionMade
    /\ \E t \in Chosen : RankOf(t) > TargetCount
    /\ \E t \in Previous \ Chosen : RankOf(t) \in 1..Top120
    /\ \E i \in 1..TargetCount : score_last.df[i] \notin Chosen


(* ====================== holdings with no shares ======================== *)
\* C24: no holdings mapping contains an instrument with zero shares,
\* neither Portfolio.holdings nor Algorithim.current_holdings.
C24_NoZeroShareHolding ==
    /\ \A t \in DOMAIN holdings : objs[holdings[t]] # Zero
    /\ "current_holdings" \in DOMAIN algo =>
          \A k \in 1..Len(algo.current_holdings) :
              algo.current_holdings[k].shares # 0


(* ======================= non-positive prices =========================== *)
(* A Portfolio trading stocks whose price_history holds a close of zero    *)
(* ("Z", from day 1) or below zero ("N"), next to the stock "B".           *)
BadPriceTickers == {"B", "Z", "N"}

NextBadPrice ==
    \/ \E t \in BadPriceTickers, n \in ShareChoices, d \in Dates : Buy(t, n, d)
    \/ \E t \in BadPriceTickers, n \in ShareChoices, d \in Dates : Sell(t, n, d)
    \/ \E d \in Dates : Value(d)

SpecBadPrice == Init /\ [][NextBadPrice]_allVars

\* the last call was a buy or a sell at a recorded price of zero or below
TradeAtBadPrice ==
    /\ last.op \in {"buy", "sell"}
    /\ get_price_at_date(last.ticker, last.date) # NoPrice
    /\ RLe(get_price_at_date(last.ticker, last.date), Zero)

\* C25: a buy or a sell at a recorded price of zero or below raises no
\* error and executes no trade: shares, cash and trade log stay as they were.
C25_NoTradeAtBadPrice ==
    TradeAtBadPrice =>
        /\ last.err = "none"
        /\ SharesOf(Self, last.ticker) = SharesOf(last.pre, last.ticker)
        /\ cash = last.pre.cash
        /\ trade_log = last.pre.trade_log


(* ================= the blend without free cash flow ==================== *)
\* the blend was called on data in which no stock has a free-cash-flow
\* yield, and returned
BlendWithoutFcf ==
    /\ score_last.op = "score"
    /\ strategy = "blend"
    /\ score_last.view.fcf = "none"

\* the instruments of a returned dict
Instruments(ret) == {ret[i].ticker : i \in 1..Len(ret)}

\* what the blend returns on the data and the previous constituents of the
\* last call when it ranks by the momentum z-score alone
MomentumOnly ==
    MomentumFCF_get_stocks_and_weights(Universe(score_last.view),
        score_last.pre,
        [momentum_weight |-> Int2R(1), fcf_weight |-> Int2R(0)])

\* C26: when no surviving instrument has a free-cash-flow yield, the blend
\* raises nothing and returns the instruments it returns when it ranks by
\* the momentum z-score alone, whatever the two weights.
C26_DegradesToMomentum ==
    BlendWithoutFcf =>
        /\ score_last.err = MomentumOnly.err
        /\ Instruments(score_last.ret) = Instruments(MomentumOnly.ret)


(* ===================== the dates of a backtest ========================= *)
\* the i-th scheduled date of the run
ScheduledDate(i) == run.start + (i - 1) * run.delta

SnapshotShares(history, heap, i) ==
    [t \in DOMAIN history[i].snap |-> heap[history[i].snap[t]]]

\* C28: no call changes a recorded holdings snapshot: every snapshot of
\* the history stays in the history and reads the same share counts after
\* the call as before it.
C28_SnapshotsFrozen ==
    [][\A i \in 1..Len(holdings_history) :
          /\ i <= Len(holdings_history')
          /\ holdings_history'[i].date = holdings_history[i].date
          /\ SnapshotShares(holdings_history', objs', i)
                = SnapshotShares(holdings_history, objs, i)]_vars


(* ======================== weights and caps ============================= *)
\* the cap of every instrument when all market caps of the universe of the
\* last call are equal: min(9%, 3 x 1/size)
EvenCap == NpMinimum(Rat(9, 100), Rat(3, score_last.view.size))

\* C29: no final weight a momentum strategy returns exceeds the cap of its
\* instrument, min(9%, 3 x reference weight) (stated for universes with
\* equal market caps, whose reference weights are 1/size).
C29_FinalWeightWithinCap ==
    (ScoreReturned /\ score_last.view.cap = "even") =>
        \A i \in 1..Len(ReturnedWeights) :
            FLe(ReturnedWeights[i], EvenCap)


(* =============== the previous constituents a call leaves =============== *)
\* C30: a scoring call that returns an empty result leaves the stored
\* previous constituents as it found them.
C30_EmptyResultKeepsPrevious ==
    (ScoreReturned /\ score_last.ret = <<>>) =>
        prev_constituents = score_last.pre

=============================================================================
